---- MODULE Spec2Model ----
(***************************************************************************)
(* Order matching engine: in-memory order books (orderbook.go), the        *)
(* price-time matcher (matcher.go) and the engine that persists orders and *)
(* trades in a transactional store (engine.go: PlaceOrder, CancelOrder,    *)
(* LoadOpenOrders).                                                        *)
(*                                                                         *)
(* Decimals are modelled by integers (one unit = the smallest quantity or  *)
(* price step); decimal.String() is canonical for equal values, so a price *)
(* key is the price itself.  ClientOrderID and UpdatedAt are not modelled: *)
(* no decision of the engine reads them.                                   *)
(***************************************************************************)
EXTENDS Integers, Sequences, FiniteSets, TLC

\* ---------------------------------------------------------------- bounds
MaxOrders == 3        \* ids the store hands out in one run
MaxPrice == 2         \* limit prices are 1..MaxPrice
MaxQty == 2           \* request quantities are 1..MaxQty
TicksPerSecond == 2   \* orders inserted within one TIMESTAMP second
MaxRows == 2          \* rows of an orders table written ahead of a start
NumThreads == 2       \* goroutines calling the engine at once
MaxCalls == 3         \* calls the goroutines start in one run

Symbols == {"BTCUSD", "ETHUSDT"}
OneSymbol == {"BTCUSD"}
Prices == 1..MaxPrice
Quantities == 1..MaxQty
Threads == 1..NumThreads

\* ---------------------------------------------------------------- models.go
OrderSideBuy == "buy"
OrderSideSell == "sell"
OrderTypeLimit == "limit"
OrderTypeMarket == "market"
OrderStatusOpen == "open"
OrderStatusPartiallyFilled == "partially_filled"
OrderStatusFilled == "filled"
OrderStatusCanceled == "canceled"

\* Price is a *decimal.Decimal: nil for an order without a price.
NoPrice == 0
\* A nil *models.Order.
NoOrder == [ID |-> 0]

Order(id, symbol, side, type, price, qty, createdAt) ==
    [ID |-> id, Symbol |-> symbol, Side |-> side, Type |-> type,
     Price |-> price, InitialQuantity |-> qty, RemainingQuantity |-> qty,
     Status |-> OrderStatusOpen, CreatedAt |-> createdAt]

Trade(symbol, buyOrderID, sellOrderID, price, quantity) ==
    [Symbol |-> symbol, BuyOrderID |-> buyOrderID, SellOrderID |-> sellOrderID,
     Price |-> price, Quantity |-> quantity]

\* ---------------------------------------------------------------- helpers
EmptyMap == [k \in {} |-> 0]

MapDelete(m, k) == [x \in (DOMAIN m) \ {k} |-> m[x]]

MapPut(m, k, v) == [x \in (DOMAIN m) \cup {k} |-> IF x = k THEN v ELSE m[x]]

\* sort.Slice with a strict "less" on pairwise distinct keys.
RECURSIVE SortAsc(_)
SortAsc(S) ==
    IF S = {} THEN <<>>
    ELSE LET lo == CHOOSE x \in S : \A y \in S : x <= y
         IN <<lo>> \o SortAsc(S \ {lo})

RECURSIVE SortDesc(_)
SortDesc(S) ==
    IF S = {} THEN <<>>
    ELSE LET hi == CHOOSE x \in S : \A y \in S : x >= y
         IN <<hi>> \o SortDesc(S \ {hi})

\* ---------------------------------------------------------------- orderbook.go
NewPriceLevel(price) == [Price |-> price, Orders |-> <<>>]

PriceLevelAdd(pl, order) == [pl EXCEPT !.Orders = Append(@, order)]

\* Index of the first order of the level with this id, 0 when there is none.
PriceLevelIndex(pl, orderID) ==
    LET hits == {i \in 1..Len(pl.Orders) : pl.Orders[i].ID = orderID}
    IN IF hits = {} THEN 0 ELSE CHOOSE i \in hits : \A j \in hits : i <= j

\* Mutant of PriceLevelRemove: the last order is moved into the gap.
PriceLevelRemove_SwapLast(pl, orderID) ==
    LET i == PriceLevelIndex(pl, orderID)
        n == Len(pl.Orders)
    IN IF i = 0 THEN pl
       ELSE [pl EXCEPT !.Orders =
                [k \in 1..(n - 1) |-> IF k = i THEN pl.Orders[n] ELSE pl.Orders[k]]]

\* Mutant of PriceLevelRemove: the head of the queue is removed.
PriceLevelRemove_Head(pl, orderID) ==
    IF PriceLevelIndex(pl, orderID) = 0 THEN pl
    ELSE [pl EXCEPT !.Orders = Tail(@)]

PriceLevelRemove(pl, orderID) ==
    LET i == PriceLevelIndex(pl, orderID)
    IN IF i = 0 THEN pl
       ELSE [pl EXCEPT !.Orders =
                SubSeq(pl.Orders, 1, i - 1) \o SubSeq(pl.Orders, i + 1, Len(pl.Orders))]

IsEmpty(pl) == Len(pl.Orders) = 0

RECURSIVE SumRemaining(_)
SumRemaining(orders) ==
    IF orders = <<>> THEN 0
    ELSE Head(orders).RemainingQuantity + SumRemaining(Tail(orders))

GetTotalQuantity(pl) == SumRemaining(pl.Orders)

NewOrderBook(symbol) ==
    [Symbol |-> symbol, Bids |-> EmptyMap, Asks |-> EmptyMap,
     bidPrices |-> <<>>, askPrices |-> <<>>]

\* Mutant of refreshBidPrices: the bid prices are sorted ascending.
refreshBidPrices_Ascending(ob) ==
    [ob EXCEPT !.bidPrices =
        SortAsc({ob.Bids[k].Price : k \in {x \in DOMAIN ob.Bids : ~IsEmpty(ob.Bids[x])}})]

refreshBidPrices(ob) ==
    [ob EXCEPT !.bidPrices =
        SortDesc({ob.Bids[k].Price : k \in {x \in DOMAIN ob.Bids : ~IsEmpty(ob.Bids[x])}})]

refreshAskPrices(ob) ==
    [ob EXCEPT !.askPrices =
        SortAsc({ob.Asks[k].Price : k \in {x \in DOMAIN ob.Asks : ~IsEmpty(ob.Asks[x])}})]

AddOrder(ob, order) ==
    IF order.Price = NoPrice THEN ob
    ELSE LET priceKey == order.Price IN
         IF order.Side = OrderSideBuy
         THEN LET pl == IF priceKey \in DOMAIN ob.Bids THEN ob.Bids[priceKey]
                        ELSE NewPriceLevel(order.Price)
              IN refreshBidPrices([ob EXCEPT !.Bids = MapPut(@, priceKey, PriceLevelAdd(pl, order))])
         ELSE LET pl == IF priceKey \in DOMAIN ob.Asks THEN ob.Asks[priceKey]
                        ELSE NewPriceLevel(order.Price)
              IN refreshAskPrices([ob EXCEPT !.Asks = MapPut(@, priceKey, PriceLevelAdd(pl, order))])

\* Mutant of RemoveOrder: a level left without orders stays in the map.
RemoveOrder_KeepsLevel(ob, orderID, side, price) ==
    IF price = NoPrice THEN ob
    ELSE IF side = OrderSideBuy
         THEN IF price \in DOMAIN ob.Bids
              THEN refreshBidPrices([ob EXCEPT !.Bids[price] = PriceLevelRemove(@, orderID)])
              ELSE ob
         ELSE IF price \in DOMAIN ob.Asks
              THEN refreshAskPrices([ob EXCEPT !.Asks[price] = PriceLevelRemove(@, orderID)])
              ELSE ob

\* RemoveOrder's return value: whether an order was removed.
RemoveOrderOk(ob, orderID, side, price) ==
    /\ price # NoPrice
    /\ LET levels == IF side = OrderSideBuy THEN ob.Bids ELSE ob.Asks
       IN /\ price \in DOMAIN levels
          /\ PriceLevelIndex(levels[price], orderID) # 0

RemoveOrder(ob, orderID, side, price) ==
    IF price = NoPrice THEN ob
    ELSE LET priceKey == price IN
         IF side = OrderSideBuy
         THEN IF priceKey \in DOMAIN ob.Bids /\ PriceLevelIndex(ob.Bids[priceKey], orderID) # 0
              THEN LET pl == PriceLevelRemove(ob.Bids[priceKey], orderID)
                   IN IF IsEmpty(pl)
                      THEN refreshBidPrices([ob EXCEPT !.Bids = MapDelete(@, priceKey)])
                      ELSE [ob EXCEPT !.Bids = MapPut(@, priceKey, pl)]
              ELSE ob
         ELSE IF priceKey \in DOMAIN ob.Asks /\ PriceLevelIndex(ob.Asks[priceKey], orderID) # 0
              THEN LET pl == PriceLevelRemove(ob.Asks[priceKey], orderID)
                   IN IF IsEmpty(pl)
                      THEN refreshAskPrices([ob EXCEPT !.Asks = MapDelete(@, priceKey)])
                      ELSE [ob EXCEPT !.Asks = MapPut(@, priceKey, pl)]
              ELSE ob

\* Mutant of GetBestBid: the newest order of the best level.
GetBestBid_Newest(ob) ==
    IF Len(ob.bidPrices) = 0 THEN NoOrder
    ELSE LET bestPrice == ob.bidPrices[1] IN
         IF bestPrice \in DOMAIN ob.Bids /\ Len(ob.Bids[bestPrice].Orders) > 0
         THEN ob.Bids[bestPrice].Orders[Len(ob.Bids[bestPrice].Orders)]
         ELSE NoOrder

GetBestBid(ob) ==
    IF Len(ob.bidPrices) = 0 THEN NoOrder
    ELSE LET bestPrice == ob.bidPrices[1] IN
         IF bestPrice \in DOMAIN ob.Bids /\ Len(ob.Bids[bestPrice].Orders) > 0
         THEN ob.Bids[bestPrice].Orders[1]
         ELSE NoOrder

\* Mutant of GetBestAsk: reads the cached prices from the wrong end.
GetBestAsk_WorstPrice(ob) ==
    IF Len(ob.askPrices) = 0 THEN NoOrder
    ELSE LET bestPrice == ob.askPrices[Len(ob.askPrices)] IN
         IF bestPrice \in DOMAIN ob.Asks /\ Len(ob.Asks[bestPrice].Orders) > 0
         THEN ob.Asks[bestPrice].Orders[1]
         ELSE NoOrder

GetBestAsk(ob) ==
    IF Len(ob.askPrices) = 0 THEN NoOrder
    ELSE LET bestPrice == ob.askPrices[1] IN
         IF bestPrice \in DOMAIN ob.Asks /\ Len(ob.Asks[bestPrice].Orders) > 0
         THEN ob.Asks[bestPrice].Orders[1]
         ELSE NoOrder

\* Mutant of WriteThrough: the matcher writes to a copy of the resting order.
WriteThrough_Copy(ob, order) == ob

\* The resting orders of a book are shared objects (*models.Order): a write
\* through the pointer is seen by the level that holds the order.
WriteThrough(ob, order) ==
    LET upd(pl) == [pl EXCEPT !.Orders =
                        [i \in 1..Len(pl.Orders) |->
                            IF pl.Orders[i].ID = order.ID THEN order ELSE pl.Orders[i]]]
    IN [ob EXCEPT !.Bids = [k \in DOMAIN ob.Bids |-> upd(ob.Bids[k])],
                  !.Asks = [k \in DOMAIN ob.Asks |-> upd(ob.Asks[k])]]

\* ---------------------------------------------------------------- matcher.go
NewMatchResult == [Trades |-> <<>>, UpdatedOrders |-> <<>>, IncomingOrderLeft |-> NoOrder]

\* Mutant of canMatch: equal prices do not match.
canMatch_Strict(incomingOrder, restingOrder) ==
    IF incomingOrder.Type = OrderTypeMarket THEN TRUE
    ELSE IF incomingOrder.Price = NoPrice \/ restingOrder.Price = NoPrice THEN FALSE
    ELSE IF incomingOrder.Side = OrderSideBuy
         THEN incomingOrder.Price > restingOrder.Price
         ELSE incomingOrder.Price < restingOrder.Price

canMatch(incomingOrder, restingOrder) ==
    IF incomingOrder.Type = OrderTypeMarket THEN TRUE
    ELSE IF incomingOrder.Price = NoPrice \/ restingOrder.Price = NoPrice THEN FALSE
    ELSE IF incomingOrder.Side = OrderSideBuy
         THEN incomingOrder.Price >= restingOrder.Price
         ELSE incomingOrder.Price <= restingOrder.Price

\* Mutant of minQuantity: the incoming order trades all it has left.
minQuantity_Incoming(incomingOrder, restingOrder) == incomingOrder.RemainingQuantity

\* executeTrade 143-146: the smaller of the two remaining quantities.
minQuantity(incomingOrder, restingOrder) ==
    IF restingOrder.RemainingQuantity < incomingOrder.RemainingQuantity
    THEN restingOrder.RemainingQuantity
    ELSE incomingOrder.RemainingQuantity

\* Mutant of executeTrade: a limit order trades at its own price.
executeTrade_TakerPrice(incomingOrder, restingOrder) ==
    LET tradeQuantity ==
            IF restingOrder.RemainingQuantity < incomingOrder.RemainingQuantity
            THEN restingOrder.RemainingQuantity
            ELSE incomingOrder.RemainingQuantity
        tradePrice ==
            IF incomingOrder.Type = OrderTypeMarket THEN restingOrder.Price
            ELSE incomingOrder.Price
    IN IF incomingOrder.Side = OrderSideBuy
       THEN Trade(incomingOrder.Symbol, incomingOrder.ID, restingOrder.ID, tradePrice, tradeQuantity)
       ELSE Trade(incomingOrder.Symbol, restingOrder.ID, incomingOrder.ID, tradePrice, tradeQuantity)

executeTrade(incomingOrder, restingOrder) ==
    LET tradeQuantity == minQuantity(incomingOrder, restingOrder)
        tradePrice ==
            IF incomingOrder.Type = OrderTypeMarket THEN restingOrder.Price
            ELSE IF restingOrder.Type = OrderTypeLimit THEN restingOrder.Price
            ELSE incomingOrder.Price
    IN IF incomingOrder.Side = OrderSideBuy
       THEN Trade(incomingOrder.Symbol, incomingOrder.ID, restingOrder.ID, tradePrice, tradeQuantity)
       ELSE Trade(incomingOrder.Symbol, restingOrder.ID, incomingOrder.ID, tradePrice, tradeQuantity)

\* Mutant of fillResting: every resting order traded against is marked Filled.
fillResting_AlwaysFilled(restingOrder, tradeQuantity, ob) ==
    LET rem == restingOrder.RemainingQuantity - tradeQuantity
        upd == [restingOrder EXCEPT !.RemainingQuantity = rem,
                                    !.Status = OrderStatusFilled]
        written == WriteThrough(ob, upd)
    IN [order |-> upd,
        book |-> IF rem = 0 THEN RemoveOrder(written, upd.ID, upd.Side, upd.Price)
                 ELSE written]

\* One pass of the loop body shared by matchBuyOrder and matchSellOrder: the
\* resting order is written through its pointer, removed when it reaches 0 and
\* appended to UpdatedOrders.  An order is touched at most once in a run (a
\* resting order that is left with quantity ends the loop), so the appended
\* value is the final state of the shared object.
fillResting(restingOrder, tradeQuantity, ob) ==
    LET rem == restingOrder.RemainingQuantity - tradeQuantity
        upd == [restingOrder EXCEPT
                   !.RemainingQuantity = rem,
                   !.Status = IF rem = 0 THEN OrderStatusFilled
                              ELSE OrderStatusPartiallyFilled]
        written == WriteThrough(ob, upd)
    IN [order |-> upd,
        book |-> IF rem = 0 THEN RemoveOrder(written, upd.ID, upd.Side, upd.Price)
                 ELSE written]

RECURSIVE matchBuyOrder(_, _, _)
matchBuyOrder(buyOrder, ob, result) ==
    IF buyOrder.RemainingQuantity = 0
    THEN [order |-> buyOrder, book |-> ob, result |-> result]
    ELSE LET bestAsk == GetBestAsk(ob) IN
         IF bestAsk = NoOrder THEN [order |-> buyOrder, book |-> ob, result |-> result]
         ELSE IF ~canMatch(buyOrder, bestAsk)
         THEN [order |-> buyOrder, book |-> ob, result |-> result]
         ELSE LET trade == executeTrade(buyOrder, bestAsk)
                  f == fillResting(bestAsk, trade.Quantity, ob)
              IN matchBuyOrder(
                    [buyOrder EXCEPT !.RemainingQuantity = @ - trade.Quantity],
                    f.book,
                    [result EXCEPT !.Trades = Append(@, trade),
                                   !.UpdatedOrders = Append(@, f.order)])

RECURSIVE matchSellOrder(_, _, _)
matchSellOrder(sellOrder, ob, result) ==
    IF sellOrder.RemainingQuantity = 0
    THEN [order |-> sellOrder, book |-> ob, result |-> result]
    ELSE LET bestBid == GetBestBid(ob) IN
         IF bestBid = NoOrder THEN [order |-> sellOrder, book |-> ob, result |-> result]
         ELSE IF ~canMatch(sellOrder, bestBid)
         THEN [order |-> sellOrder, book |-> ob, result |-> result]
         ELSE LET trade == executeTrade(sellOrder, bestBid)
                  f == fillResting(bestBid, trade.Quantity, ob)
              IN matchSellOrder(
                    [sellOrder EXCEPT !.RemainingQuantity = @ - trade.Quantity],
                    f.book,
                    [result EXCEPT !.Trades = Append(@, trade),
                                   !.UpdatedOrders = Append(@, f.order)])

\* Mutant of leftoverStatus: the leftover keeps the status it came with.
leftoverStatus_Kept(workingOrder) == workingOrder.Status

\* matcher.go 46-48: a leftover that traded is PartiallyFilled.
leftoverStatus(workingOrder) ==
    IF workingOrder.RemainingQuantity < workingOrder.InitialQuantity
    THEN OrderStatusPartiallyFilled
    ELSE workingOrder.Status

\* Mutant of finalize: the rest of a market order is handed back as a leftover.
finalize_MarketLeft(workingOrder, result) ==
    IF workingOrder.RemainingQuantity # 0
    THEN [result EXCEPT !.IncomingOrderLeft =
             IF workingOrder.RemainingQuantity < workingOrder.InitialQuantity
             THEN [workingOrder EXCEPT !.Status = OrderStatusPartiallyFilled]
             ELSE workingOrder]
    ELSE [result EXCEPT !.UpdatedOrders =
             Append(@, [workingOrder EXCEPT !.Status = OrderStatusFilled])]

\* Finalization of the working copy of the incoming order (matcher.go 43-59).
finalize(workingOrder, result) ==
    IF workingOrder.RemainingQuantity # 0
    THEN IF workingOrder.Type = OrderTypeLimit
         THEN [result EXCEPT !.IncomingOrderLeft =
                  [workingOrder EXCEPT !.Status = leftoverStatus(workingOrder)]]
         ELSE [result EXCEPT !.UpdatedOrders =
                  Append(@, [workingOrder EXCEPT !.Status = OrderStatusCanceled,
                                                 !.RemainingQuantity = 0])]
    ELSE [result EXCEPT !.UpdatedOrders =
             Append(@, [workingOrder EXCEPT !.Status = OrderStatusFilled])]

\* Match: the MatchResult and the book as the run leaves it.
Match(incomingOrder, ob) ==
    LET m == IF incomingOrder.Side = OrderSideBuy
             THEN matchBuyOrder(incomingOrder, ob, NewMatchResult)
             ELSE matchSellOrder(incomingOrder, ob, NewMatchResult)
    IN [result |-> finalize(m.order, m.result), book |-> m.book]

\* ---------------------------------------------------------------- the store
\* The MySQL store behind database/sql: the orders table (id -> row), the
\* trades table (rows in insertion order) and transactions over both.
Begin(db) == db

\* Mutant of TxInsertOrder: every order is written to the row of id 1.
TxInsertOrder_OneRow(tx, order) == [tx EXCEPT !.orders = MapPut(@, 1, order)]

TxInsertOrder(tx, order) == [tx EXCEPT !.orders = MapPut(@, order.ID, order)]

\* Mutant of TradeReferencesOk: a trades table without foreign keys.
TradeReferencesOk_NoForeignKey(tx, trade) == TRUE

\* fk_trades_buy_order, fk_trades_sell_order: both orders must be rows.
TradeReferencesOk(tx, trade) ==
    trade.BuyOrderID \in DOMAIN tx.orders /\ trade.SellOrderID \in DOMAIN tx.orders

\* Mutant of TxInsertTrade: the statement is never executed.
TxInsertTrade_Skipped(tx, trade) == tx

TxInsertTrade(tx, trade) == [tx EXCEPT !.trades = Append(@, trade)]

\* Mutant of TxUpdateOrder: the statement sets initial_quantity as well.
TxUpdateOrder_SetsInitial(tx, remainingQuantity, status, orderID) ==
    IF orderID \in DOMAIN tx.orders
    THEN [tx EXCEPT !.orders[orderID].RemainingQuantity = remainingQuantity,
                    !.orders[orderID].InitialQuantity = remainingQuantity,
                    !.orders[orderID].Status = status]
    ELSE tx

\* Mutant of TxUpdateOrder: the statement without its WHERE clause.
TxUpdateOrder_NoWhere(tx, remainingQuantity, status, orderID) ==
    [tx EXCEPT !.orders = [id \in DOMAIN tx.orders |->
                              [tx.orders[id] EXCEPT !.RemainingQuantity = remainingQuantity,
                                                    !.Status = status]]]

\* UPDATE orders SET remaining_quantity = ?, status = ? WHERE id = ?
TxUpdateOrder(tx, remainingQuantity, status, orderID) ==
    IF orderID \in DOMAIN tx.orders
    THEN [tx EXCEPT !.orders[orderID].RemainingQuantity = remainingQuantity,
                    !.orders[orderID].Status = status]
    ELSE tx

Commit(db, tx) == tx

\* Mutant of Rollback: the statements were run outside the transaction, so
\* what they wrote stays.
Rollback_Keep(db, tx) == tx

\* Also the outcome of a Commit that fails: nothing of the transaction is kept.
Rollback(db, tx) == db

\* SELECT ... FROM orders WHERE id = ?  (sql.ErrNoRows as NoOrder)
SelectOrder(orders, orderID) ==
    IF orderID \in DOMAIN orders THEN orders[orderID] ELSE NoOrder

\* time.Now() at the n-th insert, as the TIMESTAMP column keeps it.
TimeNow(n) == n \div TicksPerSecond

\* ---------------------------------------------------------------- engine.go
VARIABLES
    dbOrders,      \* orders table: id -> row
    dbTrades,      \* trades table
    lastInsertId,  \* AUTO_INCREMENT counter of the orders table
    orderBooks,    \* Engine.orderBooks: symbol -> OrderBook
    lastOp,        \* what the last call returned
    threads,       \* goroutine -> the call it is in and where
    globalMutex,   \* Engine.globalMutex: readers and writer holding it
    symbolMutexes, \* Engine.symbolMutexes: symbol -> holder (0 unlocked)
    calls,         \* calls started so far
    serial         \* the calls returned so far, run one at a time

vars == <<dbOrders, dbTrades, lastInsertId, orderBooks, lastOp,
          threads, globalMutex, symbolMutexes, calls, serial>>

\* What only goroutines interleaving their calls change.
threadVars == <<threads, globalMutex, symbolMutexes, calls, serial>>

PlaceFaults == {"none", "begin", "insert", "trade", "update", "commit"}
CancelFaults == {"none", "begin", "update", "commit"}
\* The faults inside the transaction, which the handlers answer with Rollback.
PlaceTxFaults == PlaceFaults \ {"commit"}
CancelTxFaults == CancelFaults \ {"commit"}

\* op: the call; err: "none" or what failed; order, trades: what a successful
\* call handed back; left: whether Match returned a leftover; id: the order id
\* a CancelOrder was called with (0 for the other calls); levels: what
\* GetOrderBookWithQuantities handed back.
NoLevels == [Bids |-> <<>>, Asks |-> <<>>]

Returned(op, err, order, trades, left) ==
    [op |-> op, err |-> err, order |-> order, trades |-> trades, left |-> left,
     id |-> 0, levels |-> NoLevels]

\* Mutant of getSymbolMutex: a mutex is made without the second look-up.
getSymbolMutex_NoRecheck(mutexes, symbol) == MapPut(mutexes, symbol, 0)

\* getSymbolMutex 116-119: the map with the symbol's mutex (unlocked) created
\* when absent.
getSymbolMutex(mutexes, symbol) ==
    IF symbol \in DOMAIN mutexes THEN mutexes
    ELSE MapPut(mutexes, symbol, 0)

\* getOrderBook: the map with the symbol's book created when absent.
getOrderBook(books, symbol) ==
    IF symbol \in DOMAIN books THEN books
    ELSE MapPut(books, symbol, NewOrderBook(symbol))

\* PlaceOrder 213-227: the first n trades are inserted.
RECURSIVE persistTrades(_, _, _)
persistTrades(tx, trades, n) ==
    IF n = 0 THEN tx
    ELSE TxInsertTrade(persistTrades(tx, trades, n - 1), trades[n])

\* The first trade insert the store refuses, 0 when it accepts them all.
RECURSIVE refusedTrade(_, _, _)
refusedTrade(tx, trades, i) ==
    IF i > Len(trades) THEN 0
    ELSE IF ~TradeReferencesOk(tx, trades[i]) THEN i
    ELSE refusedTrade(TxInsertTrade(tx, trades[i]), trades, i + 1)

\* PlaceOrder 229-241: the first n updated orders are written.
RECURSIVE persistUpdates(_, _, _)
persistUpdates(tx, updated, n) ==
    IF n = 0 THEN tx
    ELSE TxUpdateOrder(persistUpdates(tx, updated, n - 1),
                       updated[n].RemainingQuantity, updated[n].Status, updated[n].ID)

\* PlaceOrder 243-255: the order handed back.
returnedOrder(order, result) ==
    IF result.IncomingOrderLeft # NoOrder THEN result.IncomingOrderLeft
    ELSE LET hits == {i \in 1..Len(result.UpdatedOrders) : result.UpdatedOrders[i].ID = order.ID}
         IN IF hits = {} THEN order
            ELSE result.UpdatedOrders[CHOOSE i \in hits : \A j \in hits : i <= j]

\* A goroutine outside the engine.
Idle ==
    [pc |-> "idle", op |-> "none", symbol |-> "", order |-> NoOrder,
     result |-> NewMatchResult, working |-> NoOrder]

\* NewEngine: empty maps, unlocked mutex; no call made yet.
InitEngine ==
    /\ orderBooks = EmptyMap
    /\ lastOp = Returned("new", "none", NoOrder, <<>>, FALSE)
    /\ threads = [t \in Threads |-> Idle]
    /\ globalMutex = [readers |-> {}, writer |-> 0]
    /\ symbolMutexes = EmptyMap
    /\ calls = 0

Init ==
    /\ dbOrders = EmptyMap
    /\ dbTrades = <<>>
    /\ lastInsertId = 0
    /\ InitEngine
    /\ serial = [orders |-> dbOrders, trades |-> dbTrades, books |-> EmptyMap,
                 ret |-> lastOp]

\* Engine.PlaceOrder.  fault names the store operation that fails (k: which
\* trade insert or order update), "none" when all succeed.  A trade insert
\* that breaks a foreign key fails by itself.  The order, the symbol's book
\* and the run of Match are values computed once (\E over a singleton).
PlaceOrder(symbol, side, type, price, qty, fault, k) ==
    /\ lastInsertId < MaxOrders
    /\ \E order \in {Order(lastInsertId + 1, symbol, side, type, price, qty,
                              TimeNow(lastInsertId + 1))},
          books1 \in {getOrderBook(orderBooks, symbol)} :
       \E m \in {Match(order, books1[symbol])} :
       LET db == [orders |-> dbOrders, trades |-> dbTrades]
           orderID == order.ID
           tx1 == TxInsertOrder(Begin(db), order)
           res == m.result
           nT == Len(res.Trades)
           nU == Len(res.UpdatedOrders)
           fk == refusedTrade(tx1, res.Trades, 1)
           matched == [books1 EXCEPT ![symbol] = m.book]
           tx2 == persistTrades(tx1, res.Trades, nT)
           tx3 == persistUpdates(tx2, res.UpdatedOrders, nU)
           added == IF res.IncomingOrderLeft # NoOrder
                    THEN [matched EXCEPT ![symbol] = AddOrder(@, res.IncomingOrderLeft)]
                    ELSE matched
           failed(tx, books, id) ==
               /\ dbOrders' = Rollback(db, tx).orders
               /\ dbTrades' = Rollback(db, tx).trades
               /\ orderBooks' = books
               /\ lastInsertId' = id
               /\ lastOp' = Returned("place", fault, NoOrder, <<>>, FALSE)
       IN CASE fault = "begin" ->
                 /\ k = 0
                 /\ failed(db, orderBooks, lastInsertId)
            [] fault = "insert" ->
                 /\ k = 0
                 /\ failed(Begin(db), orderBooks, lastInsertId)
            [] fault = "trade" ->
                 /\ k \in 1..(IF fk = 0 THEN nT ELSE fk)
                 /\ failed(persistTrades(tx1, res.Trades, k - 1), matched, orderID)
            [] fault = "update" ->
                 /\ fk = 0
                 /\ k \in 1..nU
                 /\ failed(persistUpdates(tx2, res.UpdatedOrders, k - 1), matched, orderID)
            [] fault = "commit" ->
                 /\ fk = 0
                 /\ k = 0
                 /\ failed(tx3, added, orderID)
            [] fault = "none" ->
                 /\ fk = 0
                 /\ k = 0
                 /\ dbOrders' = Commit(db, tx3).orders
                 /\ dbTrades' = Commit(db, tx3).trades
                 /\ orderBooks' = added
                 /\ lastInsertId' = orderID
                 /\ lastOp' = Returned("place", "none", returnedOrder(order, res),
                                       res.Trades, res.IncomingOrderLeft # NoOrder)

\* Mutant of cancelRefusal: only the existence of the row is checked.
cancelRefusal_AnyStatus(order) == IF order = NoOrder THEN "not_found" ELSE "none"

\* The checks CancelOrder makes on a row, before the lock and again inside the
\* transaction.
cancelRefusal(order) ==
    IF order = NoOrder THEN "not_found"
    ELSE IF order.Status = OrderStatusFilled \/ order.Status = OrderStatusCanceled
    THEN "conflict"
    ELSE IF order.RemainingQuantity = 0 THEN "conflict"
    ELSE "none"

\* Mutant of cancelRecheck: the row is not read again inside the transaction.
cancelRecheck_Skipped(temp) == "none"

\* CancelOrder 415-450: the checks repeated on the row read under the lock.
cancelRecheck(temp) == cancelRefusal(temp)

\* Mutant of booksOnRefusal: RemoveOrder called ahead of the checks.
booksOnRefusal_Removed(books, removed) == removed

\* CancelOrder 384-450: every refusal returns before getOrderBook and
\* RemoveOrder (458-462) are reached.
booksOnRefusal(books, removed) == books

\* Engine.CancelOrder.
CancelOrder(orderID, fault) ==
    LET db == [orders |-> dbOrders, trades |-> dbTrades]
        order == SelectOrder(dbOrders, orderID)
        tx == Begin(db)
        temp == SelectOrder(tx.orders, orderID)
        tx1 == TxUpdateOrder(tx, 0, OrderStatusCanceled, orderID)
        books1 == getOrderBook(orderBooks, order.Symbol)
        removed == IF order.Price # NoPrice
                   THEN [books1 EXCEPT ![order.Symbol] =
                            RemoveOrder(@, orderID, order.Side, order.Price)]
                   ELSE books1
        refused(err, txn, books) ==
            /\ dbOrders' = Rollback(db, txn).orders
            /\ dbTrades' = Rollback(db, txn).trades
            /\ orderBooks' = books
            /\ lastOp' = [Returned("cancel", err, NoOrder, <<>>, FALSE)
                             EXCEPT !.id = orderID]
    IN /\ UNCHANGED lastInsertId
       /\ IF cancelRefusal(order) # "none"
          THEN /\ fault = "none"
               /\ refused(cancelRefusal(order), db,
                          IF order = NoOrder THEN orderBooks
                          ELSE booksOnRefusal(orderBooks, removed))
          ELSE IF fault = "begin" THEN refused(fault, db, orderBooks)
          ELSE IF cancelRecheck(temp) # "none"
          THEN /\ fault = "none"
               /\ refused(cancelRecheck(temp), tx, booksOnRefusal(orderBooks, removed))
          ELSE IF fault = "update" THEN refused(fault, tx, orderBooks)
          ELSE IF fault = "commit" THEN refused(fault, tx1, removed)
          ELSE /\ dbOrders' = Commit(db, tx1).orders
               /\ dbTrades' = Commit(db, tx1).trades
               /\ orderBooks' = removed
               /\ lastOp' = [Returned("cancel", "none",
                                      [order EXCEPT !.RemainingQuantity = 0,
                                                    !.Status = OrderStatusCanceled],
                                      <<>>, FALSE)
                             EXCEPT !.id = orderID]

\* SELECT ... WHERE status IN ('open', 'partially_filled')
\* ORDER BY created_at ASC, id ASC, each limit order with a price added to its book.
\* Mutant of scanBefore: ORDER BY id ASC alone.
scanBefore_ByID(r, o) == r.ID <= o.ID

\* ORDER BY created_at ASC, id ASC
scanBefore(r, o) ==
    \/ r.CreatedAt < o.CreatedAt
    \/ (r.CreatedAt = o.CreatedAt /\ r.ID <= o.ID)

RECURSIVE loadRows(_, _)
loadRows(books, rows) ==
    IF rows = {} THEN books
    ELSE LET first == CHOOSE r \in rows : \A o \in rows : scanBefore(r, o)
             next == IF first.Type = OrderTypeLimit /\ first.Price # NoPrice
                     THEN LET b == getOrderBook(books, first.Symbol)
                          IN [b EXCEPT ![first.Symbol] = AddOrder(@, first)]
                     ELSE books
         IN loadRows(next, rows \ {first})

\* Mutant of LoadOpenOrders: the query without its WHERE clause.
LoadOpenOrders_AllStatuses(books, orders) ==
    loadRows(books, {orders[id] : id \in DOMAIN orders})

LoadOpenOrders(books, orders) ==
    loadRows(books, {orders[id] : id \in {i \in DOMAIN orders :
                        orders[i].Status \in {OrderStatusOpen, OrderStatusPartiallyFilled}}})

\* A process restart: NewEngine (empty maps) followed by LoadOpenOrders.
Recover ==
    /\ orderBooks' = LoadOpenOrders(EmptyMap, dbOrders)
    /\ lastOp' = Returned("recover", "none", NoOrder, <<>>, FALSE)
    /\ UNCHANGED <<dbOrders, dbTrades, lastInsertId>>
    /\ UNCHANGED threadVars

RECURSIVE Reverse(_)
Reverse(seq) == IF seq = <<>> THEN <<>> ELSE Append(Reverse(Tail(seq)), Head(seq))

\* Engine.GetTrades: SELECT ... FROM trades WHERE symbol = ?
\* ORDER BY executed_at DESC, id DESC, with LIMIT when limit > 0.  Rows are
\* kept in id order and executed_at grows with the id.
GetTrades(trades, symbol, limit) ==
    LET rows == Reverse(SelectSeq(trades, LAMBDA t : t.Symbol = symbol))
    IN IF limit > 0 /\ limit < Len(rows) THEN SubSeq(rows, 1, limit) ELSE rows

\* A validated request: a limit order has a price > 0, a market order has none.
RequestPrices(type) == IF type = OrderTypeLimit THEN Prices ELSE {NoPrice}

\* The statement of the transaction a fault strikes: the k-th InsertTrade or
\* UpdateOrder of the persistence loops, the only statement otherwise.
FaultPoints(fault) ==
    IF fault \in {"trade", "update"} THEN 1..MaxOrders ELSE {0}

PlaceWith(symbols, faults) ==
    \E symbol \in symbols, side \in {OrderSideBuy, OrderSideSell},
       type \in {OrderTypeLimit, OrderTypeMarket}, qty \in Quantities,
       fault \in faults :
        \E price \in RequestPrices(type), k \in FaultPoints(fault) :
            /\ PlaceOrder(symbol, side, type, price, qty, fault, k)
            /\ UNCHANGED threadVars

CancelWith(faults) ==
    \E orderID \in 1..MaxOrders, fault \in faults :
        CancelOrder(orderID, fault) /\ UNCHANGED threadVars

\* Calls on one symbol, with every store fault.
Place == PlaceWith(OneSymbol, PlaceFaults)

Cancel == CancelWith(CancelFaults)

\* Calls on every symbol, the store never failing.
PlaceNoFault == PlaceWith(Symbols, {"none"})

CancelNoFault == CancelWith({"none"})

Next == Place \/ Cancel \/ Recover

Spec == Init /\ [][Next]_vars

\* Store faults inside the transaction only (a failed Commit left out).
PlaceTxFault == PlaceWith(OneSymbol, PlaceTxFaults)

CancelTxFault == CancelWith(CancelTxFaults)

NextTxFault == PlaceTxFault \/ CancelTxFault \/ Recover

SpecTxFault == Init /\ [][NextTxFault]_vars

\* The same calls alone, the process never restarting.
NextCalls == PlaceTxFault \/ CancelTxFault

SpecCalls == Init /\ [][NextCalls]_vars

\* No store fault, every symbol.
NextNoFault == PlaceNoFault \/ CancelNoFault \/ Recover

SpecNoFault == Init /\ [][NextNoFault]_vars

\* Every symbol, the calls alone, the store failing at Commit only: the fault
\* that leaves an order resting in a book without its row.
PlaceCommitFault == PlaceWith(Symbols, {"none", "commit"})

NextSymbols == PlaceCommitFault \/ CancelNoFault

SpecSymbols == Init /\ [][NextSymbols]_vars

\* ------------------------------------------------- goroutines in the engine
\* Calls interleave at the points where they touch what goroutines share: the
\* two maps under globalMutex, the symbol's mutex, the books and the committed
\* tables.  What a call writes inside its transaction stays in its goroutine
\* until Commit.  The store does not fail here.
dbVars == <<dbOrders, dbTrades, lastInsertId>>

lockVars == <<globalMutex, symbolMutexes>>

At(t, pcs) == threads[t].pc \in pcs

Goto(t, pc) == threads' = [threads EXCEPT ![t].pc = pc]

\* PlaceOrder 148-150 entered: the request, not yet an order of the store.
StartPlace(t, symbol, side, type, price, qty) ==
    /\ At(t, {"idle"})
    /\ calls < MaxCalls
    /\ calls' = calls + 1
    /\ threads' = [threads EXCEPT ![t] =
            [pc |-> "gsm_rlock", op |-> "place", symbol |-> symbol,
             order |-> Order(0, symbol, side, type, price, qty, 0),
             result |-> NewMatchResult, working |-> NoOrder]]
    /\ UNCHANGED <<dbVars, orderBooks, lastOp, lockVars, serial>>

\* One call run alone on the tables and books s, the store having given the
\* order its id: PlaceOrder 154-261.
SerialPlaceOrder(s, order) ==
    LET tx1 == TxInsertOrder(Begin([orders |-> s.orders, trades |-> s.trades]), order)
        books1 == getOrderBook(s.books, order.Symbol)
        m == Match(order, books1[order.Symbol])
        res == m.result
        tx3 == persistUpdates(persistTrades(tx1, res.Trades, Len(res.Trades)),
                              res.UpdatedOrders, Len(res.UpdatedOrders))
        matched == [books1 EXCEPT ![order.Symbol] = m.book]
        added == IF res.IncomingOrderLeft # NoOrder
                 THEN [matched EXCEPT ![order.Symbol] = AddOrder(@, res.IncomingOrderLeft)]
                 ELSE matched
    IN [orders |-> tx3.orders, trades |-> tx3.trades, books |-> added,
        ret |-> Returned("place", "none", returnedOrder(order, res), res.Trades,
                         res.IncomingOrderLeft # NoOrder)]

\* One call run alone: CancelOrder 383-472.
SerialCancelOrder(s, orderID) ==
    LET order == SelectOrder(s.orders, orderID)
        err == cancelRefusal(order)
        tx1 == TxUpdateOrder(Begin([orders |-> s.orders, trades |-> s.trades]),
                             0, OrderStatusCanceled, orderID)
        books1 == getOrderBook(s.books, order.Symbol)
        removed == IF order.Price # NoPrice
                   THEN [books1 EXCEPT ![order.Symbol] =
                            RemoveOrder(@, orderID, order.Side, order.Price)]
                   ELSE books1
    IN IF err # "none"
       THEN [s EXCEPT !.ret = [Returned("cancel", err, NoOrder, <<>>, FALSE)
                                  EXCEPT !.id = orderID]]
       ELSE [orders |-> tx1.orders, trades |-> tx1.trades, books |-> removed,
             ret |-> [Returned("cancel", "none",
                               [order EXCEPT !.RemainingQuantity = 0,
                                             !.Status = OrderStatusCanceled],
                               <<>>, FALSE)
                         EXCEPT !.id = orderID]]

\* CancelOrder 384-400: GetOrder and the checks ahead of the lock.
StartCancel(t, orderID) ==
    /\ At(t, {"idle"})
    /\ calls < MaxCalls
    /\ calls' = calls + 1
    /\ LET order == SelectOrder(dbOrders, orderID)
           err == cancelRefusal(order)
       IN IF err # "none"
          THEN /\ lastOp' = [Returned("cancel", err, NoOrder, <<>>, FALSE)
                                EXCEPT !.id = orderID]
               /\ serial' = SerialCancelOrder(serial, orderID)
               /\ UNCHANGED threads
          ELSE /\ threads' = [threads EXCEPT ![t] =
                      [pc |-> "gsm_rlock", op |-> "cancel", symbol |-> order.Symbol,
                       order |-> order, result |-> NewMatchResult,
                       working |-> NoOrder]]
               /\ UNCHANGED <<lastOp, serial>>
    /\ UNCHANGED <<dbVars, orderBooks, lockVars>>

\* Mutant of RUnlock: the read lock is kept.
RUnlock_Kept(mutex, t) == mutex

\* sync.RWMutex.RUnlock
RUnlock(mutex, t) == [mutex EXCEPT !.readers = @ \ {t}]

\* getSymbolMutex 110 and getOrderBook 127: globalMutex.RLock().
MapRLock(t) ==
    /\ At(t, {"gsm_rlock", "gob_rlock"})
    /\ globalMutex.writer = 0
    /\ globalMutex' = [globalMutex EXCEPT !.readers = @ \cup {t}]
    /\ Goto(t, IF At(t, {"gsm_rlock"}) THEN "gsm_read" ELSE "gob_read")
    /\ UNCHANGED <<dbVars, orderBooks, lastOp, symbolMutexes, calls, serial>>

\* Where getOrderBook returns to: GetOrderBookWithQuantities 351, or
\* PlaceOrder 211 and CancelOrder 459.
AfterBook(t) == IF threads[t].op = "read" THEN "top" ELSE "match"

\* 111-114 and 128-131: the map is read, RUnlock(), and the entry is used when
\* there is one.
MapRUnlock(t) ==
    /\ At(t, {"gsm_read", "gob_read"})
    /\ globalMutex' = RUnlock(globalMutex, t)
    /\ Goto(t, IF At(t, {"gsm_read"})
               THEN (IF threads[t].symbol \in DOMAIN symbolMutexes
                     THEN "lock" ELSE "gsm_lock")
               ELSE (IF threads[t].symbol \in DOMAIN orderBooks
                     THEN AfterBook(t) ELSE "gob_lock"))
    /\ UNCHANGED <<dbVars, orderBooks, lastOp, symbolMutexes, calls, serial>>

\* 115 and 132: globalMutex.Lock().
MapLock(t) ==
    /\ At(t, {"gsm_lock", "gob_lock"})
    /\ globalMutex.writer = 0
    /\ globalMutex.readers = {}
    /\ globalMutex' = [globalMutex EXCEPT !.writer = t]
    /\ Goto(t, IF At(t, {"gsm_lock"}) THEN "gsm_create" ELSE "gob_create")
    /\ UNCHANGED <<dbVars, orderBooks, lastOp, symbolMutexes, calls, serial>>

\* 116-120 and 133-137: the entry is looked up again, created when still
\* missing, and Unlock().
MapUnlock(t) ==
    /\ At(t, {"gsm_create", "gob_create"})
    /\ globalMutex' = [globalMutex EXCEPT !.writer = 0]
    /\ IF At(t, {"gsm_create"})
       THEN /\ symbolMutexes' = getSymbolMutex(symbolMutexes, threads[t].symbol)
            /\ Goto(t, "lock")
            /\ UNCHANGED orderBooks
       ELSE /\ orderBooks' = getOrderBook(orderBooks, threads[t].symbol)
            /\ Goto(t, AfterBook(t))
            /\ UNCHANGED symbolMutexes
    /\ UNCHANGED <<dbVars, lastOp, calls, serial>>

\* Mutant of MutexFree: one mutex for all symbols.
MutexFree_Global(mutexes, symbol) == \A s \in DOMAIN mutexes : mutexes[s] = 0

\* Mutant of MutexFree: Lock() that never waits.
MutexFree_Always(mutexes, symbol) == TRUE

\* sync.Mutex: Lock() goes through when no goroutine holds the mutex.
MutexFree(mutexes, symbol) == mutexes[symbol] = 0

\* PlaceOrder 151 and CancelOrder 401: symbolMutex.Lock().
SymbolLock(t) ==
    /\ At(t, {"lock"})
    /\ MutexFree(symbolMutexes, threads[t].symbol)
    /\ symbolMutexes' = [symbolMutexes EXCEPT ![threads[t].symbol] = t]
    /\ Goto(t, "begin")
    /\ UNCHANGED <<dbVars, orderBooks, lastOp, globalMutex, calls, serial>>

\* defer symbolMutex.Unlock() on return.
Return(t) ==
    /\ threads' = [threads EXCEPT ![t] = Idle]
    /\ symbolMutexes' = [symbolMutexes EXCEPT ![threads[t].symbol] = 0]

\* PlaceOrder 154-207: Begin and the order insert; the store hands out the id.
PlaceInsert(t) ==
    /\ At(t, {"begin"})
    /\ threads[t].op = "place"
    /\ lastInsertId' = lastInsertId + 1
    /\ threads' = [threads EXCEPT
            ![t].order = [@ EXCEPT !.ID = lastInsertId + 1,
                                   !.CreatedAt = TimeNow(lastInsertId + 1)],
            ![t].pc = "gob_rlock"]
    /\ UNCHANGED <<dbOrders, dbTrades, orderBooks, lastOp, lockVars, calls, serial>>

\* PlaceOrder 211-255: Match on the book, the trades and updates written in
\* the transaction, the leftover added to the book.
PlaceMatch(t) ==
    /\ At(t, {"match"})
    /\ threads[t].op = "place"
    /\ LET symbol == threads[t].symbol
           m == Match(threads[t].order, orderBooks[symbol])
           left == m.result.IncomingOrderLeft
       IN /\ orderBooks' = [orderBooks EXCEPT ![symbol] =
                                IF left # NoOrder THEN AddOrder(m.book, left) ELSE m.book]
          /\ threads' = [threads EXCEPT ![t].result = m.result, ![t].pc = "commit"]
    /\ UNCHANGED <<dbVars, lastOp, lockVars, calls, serial>>

\* PlaceOrder 257-261: Commit makes the transaction's rows visible, the call
\* returns and the symbol's mutex is released.
PlaceCommit(t) ==
    /\ At(t, {"commit"})
    /\ threads[t].op = "place"
    /\ LET db == [orders |-> dbOrders, trades |-> dbTrades]
           order == threads[t].order
           res == threads[t].result
           tx1 == TxInsertOrder(Begin(db), order)
           tx3 == persistUpdates(persistTrades(tx1, res.Trades, Len(res.Trades)),
                                 res.UpdatedOrders, Len(res.UpdatedOrders))
       IN IF refusedTrade(tx1, res.Trades, 1) # 0
          THEN /\ dbOrders' = Rollback(db, tx1).orders
               /\ dbTrades' = Rollback(db, tx1).trades
               /\ lastOp' = Returned("place", "trade", NoOrder, <<>>, FALSE)
               /\ UNCHANGED serial
          ELSE /\ dbOrders' = Commit(db, tx3).orders
               /\ dbTrades' = Commit(db, tx3).trades
               /\ lastOp' = Returned("place", "none", returnedOrder(order, res),
                                     res.Trades, res.IncomingOrderLeft # NoOrder)
               /\ serial' = SerialPlaceOrder(serial, order)
    /\ Return(t)
    /\ UNCHANGED <<lastInsertId, orderBooks, globalMutex, calls>>

\* CancelOrder 404-456: Begin, the row read again and checked, the UPDATE in
\* the transaction.
CancelRecheck(t) ==
    /\ At(t, {"begin"})
    /\ threads[t].op = "cancel"
    /\ LET orderID == threads[t].order.ID
           err == cancelRecheck(SelectOrder(dbOrders, orderID))
       IN IF err # "none"
          THEN /\ lastOp' = [Returned("cancel", err, NoOrder, <<>>, FALSE)
                                EXCEPT !.id = orderID]
               /\ serial' = SerialCancelOrder(serial, orderID)
               /\ Return(t)
          ELSE /\ Goto(t, "gob_rlock")
               /\ UNCHANGED <<lastOp, serial, symbolMutexes>>
    /\ UNCHANGED <<dbVars, orderBooks, globalMutex, calls>>

\* CancelOrder 459-462: RemoveOrder with the side and price of the row read
\* ahead of the lock.
CancelRemove(t) ==
    /\ At(t, {"match"})
    /\ threads[t].op = "cancel"
    /\ LET order == threads[t].order
       IN orderBooks' = IF order.Price # NoPrice
                        THEN [orderBooks EXCEPT ![order.Symbol] =
                                 RemoveOrder(@, order.ID, order.Side, order.Price)]
                        ELSE orderBooks
    /\ Goto(t, "commit")
    /\ UNCHANGED <<dbVars, lastOp, lockVars, calls, serial>>

\* CancelOrder 464-471: Commit, the order handed back, the mutex released.
CancelCommit(t) ==
    /\ At(t, {"commit"})
    /\ threads[t].op = "cancel"
    /\ LET db == [orders |-> dbOrders, trades |-> dbTrades]
           order == threads[t].order
           tx1 == TxUpdateOrder(Begin(db), 0, OrderStatusCanceled, order.ID)
       IN /\ dbOrders' = Commit(db, tx1).orders
          /\ dbTrades' = Commit(db, tx1).trades
          /\ lastOp' = [Returned("cancel", "none",
                                 [order EXCEPT !.RemainingQuantity = 0,
                                               !.Status = OrderStatusCanceled],
                                 <<>>, FALSE)
                           EXCEPT !.id = order.ID]
          /\ serial' = SerialCancelOrder(serial, order.ID)
    /\ Return(t)
    /\ UNCHANGED <<lastInsertId, orderBooks, globalMutex, calls>>

\* The step a goroutine inside a call takes next.
LockStep(t) == MapRLock(t) \/ MapRUnlock(t) \/ MapLock(t) \/ MapUnlock(t) \/ SymbolLock(t)

PlaceStep(t) == PlaceInsert(t) \/ PlaceMatch(t) \/ PlaceCommit(t)

CancelStep(t) == CancelRecheck(t) \/ CancelRemove(t) \/ CancelCommit(t)

StartPlaceWith(t, symbols, types, prices, quantities) ==
    \E symbol \in symbols, side \in {OrderSideBuy, OrderSideSell},
       type \in types, qty \in quantities :
        \E price \in RequestPrices(type) \cap (prices \cup {NoPrice}) :
            StartPlace(t, symbol, side, type, price, qty)

\* Goroutines placing and canceling orders of one symbol.
NextThreads ==
    \E t \in Threads :
        \/ StartPlaceWith(t, OneSymbol, {OrderTypeLimit, OrderTypeMarket},
                          Prices, Quantities)
        \/ \E orderID \in 1..MaxOrders : StartCancel(t, orderID)
        \/ LockStep(t)
        \/ PlaceStep(t)
        \/ CancelStep(t)

SpecThreads == Init /\ [][NextThreads]_vars

\* Goroutines placing limit orders of one symbol (TestConcurrentOrderPlacement).
NextPlacers ==
    \E t \in Threads :
        \/ StartPlaceWith(t, OneSymbol, {OrderTypeLimit}, Prices, Quantities)
        \/ LockStep(t)
        \/ PlaceStep(t)

SpecPlacers == Init /\ [][NextPlacers]_vars

\* Goroutines placing limit orders of every symbol and canceling orders; a
\* goroutine inside a call is scheduled again and again.  One price and one
\* quantity: which locks a call takes depends on its symbol alone.
NextLocks ==
    \E t \in Threads :
        \/ StartPlaceWith(t, Symbols, {OrderTypeLimit}, {MaxPrice}, {MaxQty})
        \/ \E orderID \in 1..MaxOrders : StartCancel(t, orderID)
        \/ LockStep(t)
        \/ PlaceStep(t)
        \/ CancelStep(t)

\* PlaceMatch and PlaceCommit have no condition but the place they stand at.
InPlaceBody(t) == threads[t].op = "place" /\ At(t, {"match", "commit"})

\* The scheduler runs a goroutine that can take a step: weak fairness of every
\* step of a call (for PlaceMatch and PlaceCommit with ENABLED written out as
\* InPlaceBody).  A Lock() that can go through again and again does go through
\* once no new call arrives, so weak fairness is enough within MaxCalls.
FairThreads ==
    \A t \in Threads :
        /\ WF_vars(LockStep(t))
        /\ WF_vars(PlaceInsert(t))
        /\ WF_vars(CancelStep(t))
        /\ ([]<>(~InPlaceBody(t)) \/ []<><<PlaceMatch(t) \/ PlaceCommit(t)>>_vars)

SpecLocks == Init /\ [][NextLocks]_vars /\ FairThreads

\* ------------------------------------------- a reader beside the matcher
\* GetOrderBookWithQuantities takes no symbol mutex: ob.mutex alone orders its
\* reads with AddOrder and RemoveOrder, and the matcher writes a resting
\* order's RemainingQuantity through the pointer outside ob.mutex.  Match is
\* taken apart here at the places where a reader can come in between.  The
\* read of a quantity that is being written is unsynchronized; it sees the
\* value before the write or the value after it.
Depths == 1..MaxPrice

bestOpposite(ob, side) ==
    IF side = OrderSideBuy THEN GetBestAsk(ob) ELSE GetBestBid(ob)

\* matcher.go 28-35: the working copy of the incoming order.
MatchCopy(t) ==
    /\ At(t, {"match"})
    /\ threads[t].op = "place"
    /\ threads' = [threads EXCEPT ![t].working = threads[t].order, ![t].pc = "loop"]
    /\ UNCHANGED <<dbVars, orderBooks, lastOp, lockVars, calls, serial>>

\* Mutant of canTrade: the loop does not look at what is left of the incoming
\* order.
canTrade_IgnoresRemaining(workingOrder, ob) ==
    /\ bestOpposite(ob, workingOrder.Side) # NoOrder
    /\ canMatch(workingOrder, bestOpposite(ob, workingOrder.Side))

\* The loop goes on (matcher.go 63-72 and 95-104).
canTrade(workingOrder, ob) ==
    /\ workingOrder.RemainingQuantity # 0
    /\ bestOpposite(ob, workingOrder.Side) # NoOrder
    /\ canMatch(workingOrder, bestOpposite(ob, workingOrder.Side))

\* 74-81 and 106-113: executeTrade and the two remaining quantities
\* decremented, the resting order's through its pointer.
MatchTrade(t) ==
    /\ At(t, {"loop"})
    /\ canTrade(threads[t].working, orderBooks[threads[t].symbol])
    /\ LET symbol == threads[t].symbol
           workingOrder == threads[t].working
           best == bestOpposite(orderBooks[symbol], workingOrder.Side)
           trade == executeTrade(workingOrder, best)
       IN /\ orderBooks' = [orderBooks EXCEPT ![symbol] =
                  WriteThrough(@, [best EXCEPT !.RemainingQuantity = @ - trade.Quantity])]
          /\ threads' = [threads EXCEPT
                  ![t].working.RemainingQuantity = @ - trade.Quantity,
                  ![t].result.Trades = Append(@, trade),
                  ![t].pc = "traded"]
    /\ UNCHANGED <<dbVars, lastOp, lockVars, calls, serial>>

\* 83-90 and 115-122: the resting order's status, RemoveOrder when nothing is
\* left of it, and the order appended to UpdatedOrders.
MatchFill(t) ==
    /\ At(t, {"traded"})
    /\ LET symbol == threads[t].symbol
           best == bestOpposite(orderBooks[symbol], threads[t].working.Side)
           f == fillResting(best, 0, orderBooks[symbol])
       IN /\ orderBooks' = [orderBooks EXCEPT ![symbol] = f.book]
          /\ threads' = [threads EXCEPT
                  ![t].result.UpdatedOrders = Append(@, f.order),
                  ![t].pc = "loop"]
    /\ UNCHANGED <<dbVars, lastOp, lockVars, calls, serial>>

\* The loop ends: matcher.go 43-59, then PlaceOrder 215-255 (the writes in the
\* transaction and AddOrder of the leftover).
MatchEnd(t) ==
    /\ At(t, {"loop"})
    /\ ~canTrade(threads[t].working, orderBooks[threads[t].symbol])
    /\ LET symbol == threads[t].symbol
           result == finalize(threads[t].working, threads[t].result)
           left == result.IncomingOrderLeft
       IN /\ orderBooks' = IF left # NoOrder
                           THEN [orderBooks EXCEPT ![symbol] = AddOrder(@, left)]
                           ELSE orderBooks
          /\ threads' = [threads EXCEPT ![t].result = result, ![t].pc = "commit"]
    /\ UNCHANGED <<dbVars, lastOp, lockVars, calls, serial>>

MatchStep(t) == MatchCopy(t) \/ MatchTrade(t) \/ MatchFill(t) \/ MatchEnd(t)

\* GetOrderBookWithQuantities 349-350 entered; getOrderBook comes first.
StartRead(t, symbol, depth) ==
    /\ At(t, {"idle"})
    /\ calls < MaxCalls
    /\ calls' = calls + 1
    /\ threads' = [threads EXCEPT ![t] =
            [pc |-> "gob_rlock", op |-> "read", symbol |-> symbol, order |-> NoOrder,
             result |-> [depth |-> depth, bidLevels |-> <<>>, askLevels |-> <<>>,
                         Bids |-> <<>>, Asks |-> <<>>],
             working |-> NoOrder]]
    /\ UNCHANGED <<dbVars, orderBooks, lastOp, lockVars, serial>>

\* orderbook.go 173-182 and 184-193: the first depth prices of a side that
\* have a level with orders.
TopPrices(prices, levels, depth) ==
    LET count == IF depth > Len(prices) THEN Len(prices) ELSE depth
        live(price) == price \in DOMAIN levels /\ ~IsEmpty(levels[price])
    IN SelectSeq(SubSeq(prices, 1, count), live)

GetTopLevels(ob, depth) ==
    [bids |-> TopPrices(ob.bidPrices, ob.Bids, depth),
     asks |-> TopPrices(ob.askPrices, ob.Asks, depth)]

\* GetOrderBookWithQuantities 351: GetTopLevels, one section of ob.mutex.
ReadTop(t) ==
    /\ At(t, {"top"})
    /\ LET top == GetTopLevels(orderBooks[threads[t].symbol], threads[t].result.depth)
       IN threads' = [threads EXCEPT ![t].result.bidLevels = top.bids,
                                     ![t].result.askLevels = top.asks,
                                     ![t].pc = "levels"]
    /\ UNCHANGED <<dbVars, orderBooks, lastOp, lockVars, calls, serial>>

\* 356-360 and 368-372: the level looked up again, zero when it is gone.
LevelTotal(levels, price) ==
    IF price \in DOMAIN levels THEN GetTotalQuantity(levels[price]) ELSE 0

\* 354-375: one pass of a loop, a section of ob.mutex of its own.
ReadLevel(t) ==
    /\ At(t, {"levels"})
    /\ LET r == threads[t].result
           ob == orderBooks[threads[t].symbol]
       IN IF Len(r.Bids) < Len(r.bidLevels)
          THEN LET price == r.bidLevels[Len(r.Bids) + 1]
               IN threads' = [threads EXCEPT ![t].result.Bids =
                       Append(@, [Price |-> price, Quantity |-> LevelTotal(ob.Bids, price)])]
          ELSE /\ Len(r.Asks) < Len(r.askLevels)
               /\ LET price == r.askLevels[Len(r.Asks) + 1]
                  IN threads' = [threads EXCEPT ![t].result.Asks =
                       Append(@, [Price |-> price, Quantity |-> LevelTotal(ob.Asks, price)])]
    /\ UNCHANGED <<dbVars, orderBooks, lastOp, lockVars, calls, serial>>

\* 377: the levels are handed back.
ReadReturn(t) ==
    /\ At(t, {"levels"})
    /\ Len(threads[t].result.Bids) = Len(threads[t].result.bidLevels)
    /\ Len(threads[t].result.Asks) = Len(threads[t].result.askLevels)
    /\ lastOp' = [Returned("read", "none", NoOrder, <<>>, FALSE) EXCEPT
                     !.levels = [Bids |-> threads[t].result.Bids,
                                 Asks |-> threads[t].result.Asks]]
    /\ serial' = [serial EXCEPT !.ret = lastOp']
    /\ threads' = [threads EXCEPT ![t] = Idle]
    /\ UNCHANGED <<dbVars, orderBooks, lockVars, calls>>

ReadStep(t) == ReadTop(t) \/ ReadLevel(t) \/ ReadReturn(t)

\* Goroutines placing and canceling orders of one symbol and reading its book.
NextReads ==
    \E t \in Threads :
        \/ StartPlaceWith(t, OneSymbol, {OrderTypeLimit, OrderTypeMarket},
                          Prices, Quantities)
        \/ \E orderID \in 1..MaxOrders : StartCancel(t, orderID)
        \/ \E symbol \in OneSymbol, depth \in Depths : StartRead(t, symbol, depth)
        \/ LockStep(t)
        \/ PlaceInsert(t)
        \/ MatchStep(t)
        \/ PlaceCommit(t)
        \/ CancelStep(t)
        \/ ReadStep(t)

SpecReads == Init /\ [][NextReads]_vars

\* The scheduler runs a goroutine that is inside Match again and again.
FairMatch == \A t \in Threads : WF_vars(MatchStep(t))

\* Goroutines placing orders of one symbol, Match taken step by step.
NextLoops ==
    \E t \in Threads :
        \/ StartPlaceWith(t, OneSymbol, {OrderTypeLimit, OrderTypeMarket},
                          Prices, Quantities)
        \/ LockStep(t)
        \/ PlaceInsert(t)
        \/ MatchStep(t)
        \/ PlaceCommit(t)

SpecLoops == Init /\ [][NextLoops]_vars /\ FairMatch

\* An orders table as a start can find it (TestStartupRecovery writes its rows
\* with explicit ids and created_at): any status, type and price, ids and
\* created_at in any relative order.
StoredRows ==
    [Symbol : Symbols, Side : {OrderSideBuy, OrderSideSell},
     Type : {OrderTypeLimit, OrderTypeMarket}, Price : Prices \cup {NoPrice},
     InitialQuantity : {MaxQty}, RemainingQuantity : Quantities,
     Status : {OrderStatusOpen, OrderStatusPartiallyFilled,
               OrderStatusFilled, OrderStatusCanceled},
     CreatedAt : 0..1]

StoredTables ==
    UNION {[ids -> StoredRows] : ids \in SUBSET (1..MaxRows)}

WithIDs(table) ==
    [id \in DOMAIN table |->
        [ID |-> id, Symbol |-> table[id].Symbol, Side |-> table[id].Side,
         Type |-> table[id].Type, Price |-> table[id].Price,
         InitialQuantity |-> table[id].InitialQuantity,
         RemainingQuantity |-> table[id].RemainingQuantity,
         Status |-> table[id].Status, CreatedAt |-> table[id].CreatedAt]]

InitLoad ==
    /\ dbOrders \in {WithIDs(table) : table \in StoredTables}
    /\ dbTrades = <<>>
    /\ lastInsertId = MaxRows
    /\ InitEngine
    /\ serial = [orders |-> dbOrders, trades |-> dbTrades, books |-> EmptyMap,
                 ret |-> lastOp]

\* A start on such a table: NewEngine and LoadOpenOrders, nothing else.
NextLoad == Recover

SpecLoad == InitLoad /\ [][NextLoad]_vars

\* ================================================================ properties
BookOf(books, symbol) ==
    IF symbol \in DOMAIN books THEN books[symbol] ELSE NewOrderBook(symbol)

\* ------------------------------------------------- Match called on a book
\* The matcher's tests: a book filled with AddOrder, then Match on an incoming
\* order.  threads[1] keeps the order and the book passed to the last Match
\* and the MatchResult it returned; lastInsertId counts the orders the test made.
TestSymbol == "BTCUSD"

\* orderBook.AddOrder(order) with a fresh limit order.
TestAddOrder(side, price, qty) ==
    /\ lastInsertId < MaxOrders
    /\ lastInsertId' = lastInsertId + 1
    /\ orderBooks' = [getOrderBook(orderBooks, TestSymbol) EXCEPT ![TestSymbol] =
            AddOrder(@, Order(lastInsertId + 1, TestSymbol, side, OrderTypeLimit,
                              price, qty, TimeNow(lastInsertId + 1)))]
    /\ UNCHANGED <<dbOrders, dbTrades, lastOp, threadVars>>

\* result := matcher.Match(incomingOrder, orderBook)
TestMatch(side, type, price, qty) ==
    /\ lastInsertId <= MaxOrders
    /\ lastInsertId' = lastInsertId + 1
    /\ \E incomingOrder \in {Order(lastInsertId + 1, TestSymbol, side, type, price, qty,
                                     TimeNow(lastInsertId + 1))} :
          \E m \in {Match(incomingOrder, BookOf(orderBooks, TestSymbol))} :
            /\ orderBooks' = MapPut(orderBooks, TestSymbol, m.book)
            /\ threads' = [threads EXCEPT ![1] =
                    [pc |-> "idle", op |-> "match", symbol |-> TestSymbol,
                     order |-> incomingOrder, result |-> m.result,
                     working |-> NoOrder,
                     book |-> BookOf(orderBooks, TestSymbol)]]
    /\ UNCHANGED <<dbOrders, dbTrades, lastOp, globalMutex, symbolMutexes, calls, serial>>

\* Every resting order and every incoming order: a limit order with or without
\* a price, a market order.
NextMatch ==
    \/ \E side \in {OrderSideBuy, OrderSideSell}, price \in Prices, qty \in Quantities :
          TestAddOrder(side, price, qty)
    \/ \E side \in {OrderSideBuy, OrderSideSell}, type \in {OrderTypeLimit, OrderTypeMarket},
          qty \in Quantities :
          \E price \in (IF type = OrderTypeMarket THEN {NoPrice} ELSE Prices \cup {NoPrice}) :
              TestMatch(side, type, price, qty)

SpecMatch == Init /\ [][NextMatch]_vars

\* ------------------------------------------------ the book's own methods
\* AddOrder, RemoveOrder, GetBestBid and GetBestAsk called on one book with
\* any arguments.  threads[1] keeps the arguments of the last call, the book
\* it was made on and what it returned.
BookCall(op, order, result) ==
    [pc |-> "idle", op |-> op, symbol |-> TestSymbol, order |-> order,
     result |-> result, working |-> NoOrder,
     book |-> BookOf(orderBooks, TestSymbol)]

BookAdd(side, type, price, qty) ==
    /\ lastInsertId < MaxOrders
    /\ lastInsertId' = lastInsertId + 1
    /\ \E order \in {Order(lastInsertId + 1, TestSymbol, side, type, price, qty,
                            TimeNow(lastInsertId + 1))} :
          /\ orderBooks' = [getOrderBook(orderBooks, TestSymbol) EXCEPT
                               ![TestSymbol] = AddOrder(@, order)]
          /\ threads' = [threads EXCEPT ![1] = BookCall("add", order, NewMatchResult)]
    /\ UNCHANGED <<dbOrders, dbTrades, lastOp, globalMutex, symbolMutexes, calls, serial>>

BookRemove(orderID, side, price) ==
    /\ orderBooks' = [getOrderBook(orderBooks, TestSymbol) EXCEPT
                         ![TestSymbol] = RemoveOrder(@, orderID, side, price)]
    /\ threads' = [threads EXCEPT ![1] =
            BookCall("remove", [ID |-> orderID, Side |-> side, Price |-> price],
                     [removed |-> RemoveOrderOk(BookOf(orderBooks, TestSymbol),
                                                orderID, side, price)])]
    /\ UNCHANGED <<dbOrders, dbTrades, lastInsertId, lastOp, globalMutex,
                   symbolMutexes, calls, serial>>

BookBest ==
    /\ orderBooks' = getOrderBook(orderBooks, TestSymbol)
    /\ threads' = [threads EXCEPT ![1] =
            BookCall("best", NoOrder,
                     [bid |-> GetBestBid(BookOf(orderBooks, TestSymbol)),
                      ask |-> GetBestAsk(BookOf(orderBooks, TestSymbol))])]
    /\ UNCHANGED <<dbOrders, dbTrades, lastInsertId, lastOp, globalMutex,
                   symbolMutexes, calls, serial>>

NextBook ==
    \/ \E side \in {OrderSideBuy, OrderSideSell}, type \in {OrderTypeLimit, OrderTypeMarket},
          price \in Prices \cup {NoPrice}, qty \in Quantities :
            BookAdd(side, type, price, qty)
    \/ \E orderID \in 1..MaxOrders, side \in {OrderSideBuy, OrderSideSell},
          price \in Prices \cup {NoPrice} :
            BookRemove(orderID, side, price)
    \/ BookBest

SpecBook == Init /\ [][NextBook]_vars

RECURSIVE ConcatLevels(_, _)
ConcatLevels(levels, prices) ==
    IF prices = <<>> THEN <<>>
    ELSE levels[Head(prices)].Orders \o ConcatLevels(levels, Tail(prices))

\* The resting orders an incoming order of this side faces, best price first
\* and oldest first within a price, read from the level maps.
OppositeQueue(ob, side) ==
    IF side = OrderSideBuy
    THEN ConcatLevels(ob.Asks, SortAsc(DOMAIN ob.Asks))
    ELSE ConcatLevels(ob.Bids, SortDesc(DOMAIN ob.Bids))

\* Every order resting in a book, with the coordinate it is stored at.
Resting(ob) ==
    {[side |-> OrderSideBuy, price |-> k, order |-> ob.Bids[k].Orders[i]] :
        <<k, i>> \in {<<k, i>> \in (DOMAIN ob.Bids) \X (1..MaxOrders) :
                        i <= Len(ob.Bids[k].Orders)}}
    \cup
    {[side |-> OrderSideSell, price |-> k, order |-> ob.Asks[k].Orders[i]] :
        <<k, i>> \in {<<k, i>> \in (DOMAIN ob.Asks) \X (1..MaxOrders) :
                        i <= Len(ob.Asks[k].Orders)}}

AllResting == UNION {Resting(orderBooks[s]) : s \in DOMAIN orderBooks}

\* The resting side of a trade of this incoming order.
MakerID(trade, incomingSide) ==
    IF incomingSide = OrderSideBuy THEN trade.SellOrderID ELSE trade.BuyOrderID

RECURSIVE TradedQuantity(_, _)
TradedQuantity(trades, orderID) ==
    IF trades = <<>> THEN 0
    ELSE (IF Head(trades).BuyOrderID = orderID \/ Head(trades).SellOrderID = orderID
          THEN Head(trades).Quantity ELSE 0)
         + TradedQuantity(Tail(trades), orderID)

PlacedOk(op) == op.op = "place" /\ op.err = "none"

\* C1: after a successful PlaceOrder the store row of the returned id has the
\* status and the remaining quantity of the returned order.
C1_RoundTrip ==
    PlacedOk(lastOp) =>
        LET row == SelectOrder(dbOrders, lastOp.order.ID)
        IN /\ row # NoOrder
           /\ row.Status = lastOp.order.Status
           /\ row.RemainingQuantity = lastOp.order.RemainingQuantity

\* What a book holds: per side and price, the ids in FIFO order with their
\* remaining quantities.
LevelView(levels) ==
    [k \in DOMAIN levels |->
        [i \in 1..Len(levels[k].Orders) |->
            <<levels[k].Orders[i].ID, levels[k].Orders[i].RemainingQuantity>>]]

BookView(ob) == [Bids |-> LevelView(ob.Bids), Asks |-> LevelView(ob.Asks)]

\* C2: recovery law: after successful calls only, the books LoadOpenOrders
\* builds from the store have the levels, the FIFO order and the remaining
\* quantities of the books in memory.
C2_RecoveryLaw ==
    \A s \in Symbols :
        BookView(BookOf(LoadOpenOrders(EmptyMap, dbOrders), s)) = BookView(BookOf(orderBooks, s))

\* C3: the stored trades of an order sum to at most its initial quantity, and
\* to exactly that iff the order is Filled.
C3_TradeSum ==
    \A id \in DOMAIN dbOrders :
        LET sum == TradedQuantity(dbTrades, id)
        IN /\ sum <= dbOrders[id].InitialQuantity
           /\ (sum = dbOrders[id].InitialQuantity) <=> (dbOrders[id].Status = OrderStatusFilled)

\* C4: a book with a best bid and a best ask is not crossed.
C4_NotCrossed ==
    \A s \in DOMAIN orderBooks :
        LET bid == GetBestBid(orderBooks[s])
            ask == GetBestAsk(orderBooks[s])
        IN (bid # NoOrder /\ ask # NoOrder) => bid.Price < ask.Price

\* The order with this id resting in the book, NoOrder when there is none.
RestingByID(ob, orderID) ==
    LET hits == {r \in Resting(ob) : r.order.ID = orderID}
    IN IF hits = {} THEN NoOrder ELSE (CHOOSE r \in hits : TRUE).order

\* One step of price-time priority: the makers of a successful PlaceOrder
\* against the queue the book held before the call.
C5_Step ==
    PlacedOk(lastOp') =>
        LET o == lastOp'.order
            trades == lastOp'.trades
            queue == OppositeQueue(BookOf(orderBooks, o.Symbol), o.Side)
        IN /\ Len(trades) <= Len(queue)
           /\ \A i \in 1..Len(trades) :
                /\ MakerID(trades[i], o.Side) = queue[i].ID
                /\ i < Len(trades) => trades[i].Quantity = queue[i].RemainingQuantity

\* C5: price-time priority.  The resting orders one successful PlaceOrder
\* trades against are a prefix of the opposite side of the book as it was
\* before the call, best price first and oldest first within a price, and
\* every one but the last is consumed entirely.
C5_PriceTimePriority == [][C5_Step]_vars

\* A market or limit order that walked two price levels.
C5_Witness ==
    /\ PlacedOk(lastOp)
    /\ Len(lastOp.trades) >= 2
    /\ lastOp.trades[1].Price # lastOp.trades[2].Price

\* The trades of a successful PlaceOrder against the resting orders of the
\* book before the call.
C6_Step ==
    PlacedOk(lastOp') =>
        LET o == lastOp'.order
            ob == BookOf(orderBooks, o.Symbol)
        IN \A i \in 1..Len(lastOp'.trades) :
              LET maker == RestingByID(ob, MakerID(lastOp'.trades[i], o.Side))
              IN maker # NoOrder /\ lastOp'.trades[i].Price = maker.Price

\* C6: every trade of a successful PlaceOrder executes at the price of the
\* resting order it was made against, whatever the incoming order's type and
\* price.
C6_MakerPrice == [][C6_Step]_vars

\* A limit order that traded at a price other than its own limit.
C6_Witness ==
    /\ PlacedOk(lastOp)
    /\ lastOp.order.Type = OrderTypeLimit
    /\ \E i \in 1..Len(lastOp.trades) : lastOp.trades[i].Price # lastOp.order.Price

\* C7: every stored trade joins two different stored orders, a Buy order as
\* buy_order_id and a Sell order as sell_order_id, both of the trade's symbol.
C7_TradeReferences ==
    \A i \in 1..Len(dbTrades) :
        LET t == dbTrades[i] IN
        /\ t.BuyOrderID # t.SellOrderID
        /\ t.BuyOrderID \in DOMAIN dbOrders
        /\ t.SellOrderID \in DOMAIN dbOrders
        /\ dbOrders[t.BuyOrderID].Side = OrderSideBuy
        /\ dbOrders[t.SellOrderID].Side = OrderSideSell
        /\ dbOrders[t.BuyOrderID].Symbol = t.Symbol
        /\ dbOrders[t.SellOrderID].Symbol = t.Symbol

\* A trade stored while an order of another symbol rests in its own book.
C7_Witness ==
    \E i \in 1..Len(dbTrades) : \E r \in AllResting :
        r.order.Symbol # dbTrades[i].Symbol

\* C8: every order resting in a book is Open or PartiallyFilled, has remaining
\* quantity > 0 and sits on its side in the level of its price.
C8_RestingOrders ==
    \A s \in DOMAIN orderBooks :
        /\ \A r \in Resting(orderBooks[s]) :
            /\ r.order.Status \in {OrderStatusOpen, OrderStatusPartiallyFilled}
            /\ r.order.RemainingQuantity > 0
            /\ r.order.Price = r.price
            /\ r.order.Side = r.side
        /\ \A k \in DOMAIN orderBooks[s].Bids : orderBooks[s].Bids[k].Price = k
        /\ \A k \in DOMAIN orderBooks[s].Asks : orderBooks[s].Asks[k].Price = k

\* A partially filled order resting next to an untouched one, on both sides.
C8_Witness ==
    /\ \E r \in AllResting : r.order.Status = OrderStatusPartiallyFilled
    /\ \E r \in AllResting : r.order.Status = OrderStatusOpen /\ r.side = OrderSideBuy
    /\ \E r \in AllResting : r.side = OrderSideSell

C10_Step ==
    lastOp'.op = "place" =>
        IF lastOp'.err # "none"
        THEN dbOrders' = dbOrders /\ dbTrades' = dbTrades
        ELSE LET o == lastOp'.order
                 ob == BookOf(orderBooks, o.Symbol)
             IN /\ DOMAIN dbOrders' = DOMAIN dbOrders \cup {o.ID}
                /\ o.ID \notin DOMAIN dbOrders
                /\ dbTrades' = dbTrades \o lastOp'.trades
                /\ \A i \in 1..Len(lastOp'.trades) :
                      LET id == MakerID(lastOp'.trades[i], o.Side)
                          rem == RestingByID(ob, id).RemainingQuantity
                                    - lastOp'.trades[i].Quantity
                      IN /\ dbOrders'[id].RemainingQuantity = rem
                         /\ dbOrders'[id].Status =
                              IF rem = 0 THEN OrderStatusFilled
                              ELSE OrderStatusPartiallyFilled

\* C10: a PlaceOrder that fails leaves the orders and trades tables as they
\* were; one that succeeds commits together the order row, the trades it
\* returns and the update of every resting order it traded against.
C10_Atomicity == [][C10_Step]_vars

\* A PlaceOrder that failed on an order update, after its trades were inserted.
C10_Witness == lastOp.op = "place" /\ lastOp.err = "update"

\* A failed PlaceOrder against the book before the call.
C11_Step ==
    (lastOp'.op = "place" /\ lastOp'.err \in {"insert", "trade", "update"}) =>
        /\ dbOrders' = dbOrders
        /\ dbTrades' = dbTrades
        /\ \A s \in Symbols : BookOf(orderBooks', s) = BookOf(orderBooks, s)

\* C11: a PlaceOrder that fails on the order insert, a trade insert or an order
\* update rolls the transaction back and leaves the book of the symbol as it
\* was: no resting order removed, no remaining quantity or status changed.
C11_BookAsBefore == [][C11_Step]_vars

\* The orders of a level without one id; a level left empty is dropped.
SeqWithout(orders, orderID) == SelectSeq(orders, LAMBDA o : o.ID # orderID)

LevelsWithout(levels, orderID) ==
    [k \in {p \in DOMAIN levels : SeqWithout(levels[p].Orders, orderID) # <<>>} |->
        SeqWithout(levels[k].Orders, orderID)]

LevelOrders(levels) == [k \in DOMAIN levels |-> levels[k].Orders]

\* A successful CancelOrder against the row and the books before the call.
C13_Step ==
    (lastOp'.op = "cancel" /\ lastOp'.err = "none") =>
        LET id == lastOp'.id
            row == SelectOrder(dbOrders, id)
        IN /\ row # NoOrder
           /\ row.Status \in {OrderStatusOpen, OrderStatusPartiallyFilled}
           /\ row.RemainingQuantity > 0
           /\ dbOrders'[id].Status = OrderStatusCanceled
           /\ dbOrders'[id].RemainingQuantity = 0
           /\ \A s \in Symbols :
                LET before == BookOf(orderBooks, s)
                    after == BookOf(orderBooks', s)
                IN /\ RestingByID(after, id) = NoOrder
                   /\ LevelOrders(after.Bids) = LevelsWithout(before.Bids, id)
                   /\ LevelOrders(after.Asks) = LevelsWithout(before.Asks, id)

\* C13: CancelOrder succeeds only on a row that is Open or PartiallyFilled with
\* remaining quantity > 0; afterwards the row is Canceled with remaining 0, the
\* order is in no book and every other resting order keeps its level, its
\* position and its quantity.
C13_CancelEffect == [][C13_Step]_vars

\* A canceled order that left an older and a younger order at its price, or
\* one of the two.
C13_Witness ==
    /\ lastOp.op = "cancel"
    /\ lastOp.err = "none"
    /\ \E r \in AllResting :
          /\ r.side = lastOp.order.Side
          /\ r.price = lastOp.order.Price
          /\ r.order.ID < lastOp.id

\* A CancelOrder that succeeds, and one on an id whose row is Canceled.
C14_Step ==
    /\ (lastOp'.op = "cancel" /\ lastOp'.err = "none") =>
          SelectOrder(dbOrders', lastOp'.id).Status = OrderStatusCanceled
    /\ (/\ lastOp'.op = "cancel"
        /\ SelectOrder(dbOrders, lastOp'.id) # NoOrder
        /\ SelectOrder(dbOrders, lastOp'.id).Status = OrderStatusCanceled) =>
          /\ lastOp'.err = "conflict"
          /\ UNCHANGED <<dbOrders, dbTrades, lastInsertId, orderBooks>>

\* C14: cancel is not repeatable.  A successful CancelOrder leaves the row
\* Canceled, and every CancelOrder on an id whose row is Canceled fails with a
\* conflict and changes nothing.
C14_CancelOnce == [][C14_Step]_vars

\* A refused CancelOrder on a limit order, which only a CancelOrder cancels.
C14_Witness ==
    /\ lastOp.op = "cancel"
    /\ lastOp.err = "conflict"
    /\ SelectOrder(dbOrders, lastOp.id) # NoOrder
    /\ dbOrders[lastOp.id].Type = OrderTypeLimit
    /\ dbOrders[lastOp.id].Status = OrderStatusCanceled

\* A CancelOrder refused as not found or as a conflict.
C15_Step ==
    (lastOp'.op = "cancel" /\ lastOp'.err \in {"not_found", "conflict"}) =>
        UNCHANGED <<dbOrders, dbTrades, orderBooks>>

\* C15: a CancelOrder that fails with NotFound or Conflict leaves the orders
\* table, the trades table and every book unchanged.
C15_RefusalNoChange == [][C15_Step]_vars

\* A cancel refused on a Filled order while other orders rest.
C15_Witness ==
    /\ lastOp.op = "cancel"
    /\ lastOp.err = "conflict"
    /\ SelectOrder(dbOrders, lastOp.id) # NoOrder
    /\ dbOrders[lastOp.id].Status = OrderStatusFilled
    /\ AllResting # {}

\* The rows that are Filled or Canceled and the trades, across one step.
C16_Step ==
    /\ \A id \in DOMAIN dbOrders :
          dbOrders[id].Status \in {OrderStatusFilled, OrderStatusCanceled} =>
            /\ id \in DOMAIN dbOrders'
            /\ dbOrders'[id].Status = dbOrders[id].Status
            /\ dbOrders'[id].RemainingQuantity = dbOrders[id].RemainingQuantity
            /\ \A i \in (Len(dbTrades) + 1)..Len(dbTrades') :
                  dbTrades'[i].BuyOrderID # id /\ dbTrades'[i].SellOrderID # id
    /\ Len(dbTrades') >= Len(dbTrades)
    /\ SubSeq(dbTrades', 1, Len(dbTrades)) = dbTrades

\* C16: once a row is Filled or Canceled no PlaceOrder or CancelOrder changes
\* its status or remaining quantity and no new trade references it; a stored
\* trade is never modified or deleted.
C16_TerminalIsFinal == [][C16_Step]_vars

\* A Filled row, a Canceled row and a trade, with a call made after them.
C16_Witness ==
    /\ \E id \in DOMAIN dbOrders :
          dbOrders[id].Status = OrderStatusFilled /\ dbOrders[id].Type = OrderTypeLimit
    /\ \E id \in DOMAIN dbOrders :
          dbOrders[id].Status = OrderStatusCanceled /\ dbOrders[id].Type = OrderTypeLimit
    /\ Len(dbTrades) > 0
    /\ lastOp.op = "cancel"
    /\ lastOp.err = "conflict"

\* C17: the trades a successful PlaceOrder returns are the trades of the new
\* order in the store, field by field, all of them under the order's symbol and
\* so retrievable through GetTrades, and the store has no other trade of it.
C17_ReturnedTradesStored ==
    PlacedOk(lastOp) =>
        LET o == lastOp.order
            mine(trades) == SelectSeq(trades, LAMBDA t :
                                t.BuyOrderID = o.ID \/ t.SellOrderID = o.ID)
        IN /\ mine(dbTrades) = lastOp.trades
           /\ mine(GetTrades(dbTrades, o.Symbol, 0)) = Reverse(lastOp.trades)

\* A call that returned trades, the table holding older trades too.
C17_Witness ==
    /\ PlacedOk(lastOp)
    /\ Len(lastOp.trades) > 0
    /\ Len(dbTrades) > Len(lastOp.trades)

\* The places <<symbol, side, price, position>> where an order with this id
\* rests.
PlacesOf(books, orderID) ==
    {p \in (DOMAIN books) \X {OrderSideBuy, OrderSideSell} \X Prices \X (1..MaxOrders) :
        LET levels == IF p[2] = OrderSideBuy THEN books[p[1]].Bids ELSE books[p[1]].Asks
        IN /\ p[3] \in DOMAIN levels
           /\ p[4] <= Len(levels[p[3]].Orders)
           /\ levels[p[3]].Orders[p[4]].ID = orderID}

\* The rows LoadOpenOrders is to load.
Loadable(row) ==
    /\ row.Status \in {OrderStatusOpen, OrderStatusPartiallyFilled}
    /\ row.Type = OrderTypeLimit
    /\ row.Price # NoPrice

InScanOrder(orders) ==
    \A i, j \in 1..Len(orders) :
        i < j => \/ orders[i].CreatedAt < orders[j].CreatedAt
                 \/ (orders[i].CreatedAt = orders[j].CreatedAt /\ orders[i].ID < orders[j].ID)

\* C19: after Recover on an empty engine every stored Open or PartiallyFilled
\* limit order with a price rests exactly once, in the book of its symbol, on
\* its side, at its price, with its stored remaining quantity; the orders of a
\* level are in (created_at, id) order; no other row and nothing else rests.
C19_RecoverLoads ==
    lastOp.op = "recover" =>
        /\ \A id \in DOMAIN dbOrders :
              LET row == dbOrders[id] IN
              IF Loadable(row)
              THEN /\ \E i \in 1..MaxOrders :
                         PlacesOf(orderBooks, id) = {<<row.Symbol, row.Side, row.Price, i>>}
                   /\ RestingByID(orderBooks[row.Symbol], id) = row
              ELSE PlacesOf(orderBooks, id) = {}
        /\ \A r \in AllResting : r.order.ID \in DOMAIN dbOrders
        /\ \A s \in DOMAIN orderBooks :
              /\ \A k \in DOMAIN orderBooks[s].Bids : InScanOrder(orderBooks[s].Bids[k].Orders)
              /\ \A k \in DOMAIN orderBooks[s].Asks : InScanOrder(orderBooks[s].Asks[k].Orders)

\* A start that loaded two orders into one level, the one with the greater id
\* first.
C19_Witness ==
    /\ lastOp.op = "recover"
    /\ \E r \in AllResting, q \in AllResting :
          /\ r.side = q.side
          /\ r.price = q.price
          /\ r.order.Symbol = q.order.Symbol
          /\ r.order.ID < q.order.ID
          /\ r.order.CreatedAt > q.order.CreatedAt

\* The goroutines between Lock and Unlock of a symbol's mutex.
InSection(symbol) ==
    {t \in Threads :
        /\ threads[t].symbol = symbol
        /\ At(t, {"begin", "gob_rlock", "gob_read", "gob_lock", "gob_create",
                  "match", "commit"})}

\* C12: calls on one symbol are linearizable.  At most one goroutine is
\* between Lock and Unlock of the symbol's mutex; the tables and the value
\* last returned (a refusal by its kind, not its text) are those of the
\* returned calls run one at a time in the order of their returns, and so is
\* the book whenever no call is inside.
C12_Linearizable ==
    /\ \A s \in Symbols : Cardinality(InSection(s)) <= 1
    /\ dbOrders = serial.orders
    /\ dbTrades = serial.trades
    /\ lastOp = serial.ret
    /\ \A s \in Symbols :
          InSection(s) = {} => BookOf(orderBooks, s) = BookOf(serial.books, s)

\* A CancelOrder holding the mutex with a row it read as open ahead of the
\* lock, the row filled since by a PlaceOrder of another goroutine.
C12_Witness ==
    \E t \in Threads :
        /\ threads[t].op = "cancel"
        /\ At(t, {"begin"})
        /\ threads[t].order.Status = OrderStatusOpen
        /\ dbOrders[threads[t].order.ID].Status = OrderStatusFilled

\* C18: goroutines placing limit orders of one symbol at once: no call returns
\* an error, every returned call has its own row (the ids in flight and
\* stored are all different), and every row is Open, PartiallyFilled or Filled.
C18_ConcurrentPlacement ==
    /\ lastOp.op = "place" =>
          lastOp.err = "none" /\ lastOp.order.ID \in DOMAIN dbOrders
    /\ Cardinality(DOMAIN dbOrders) + Cardinality({t \in Threads : ~At(t, {"idle"})}) = calls
    /\ \A t \in Threads :
          threads[t].order.ID # 0 =>
            /\ threads[t].order.ID \notin DOMAIN dbOrders
            /\ \A u \in Threads \ {t} : threads[u].order.ID # threads[t].order.ID
    /\ \A id \in DOMAIN dbOrders :
          /\ dbOrders[id].ID = id
          /\ dbOrders[id].Status \in
                {OrderStatusOpen, OrderStatusPartiallyFilled, OrderStatusFilled}

\* A call that traded about to commit while another goroutine waits for the
\* mutex, an earlier call having returned.
C18_Witness ==
    \E t \in Threads, u \in Threads :
        /\ At(t, {"commit"})
        /\ Len(threads[t].result.Trades) > 0
        /\ At(u, {"lock"})
        /\ symbolMutexes[threads[u].symbol] = t
        /\ dbOrders # EmptyMap

\* A goroutine holds globalMutex only while it reads or fills one of the maps.
C20_LockOrder ==
    \A t \in Threads :
        (t \in globalMutex.readers \/ globalMutex.writer = t) =>
            At(t, {"gsm_read", "gsm_create", "gob_read", "gob_create"})

C20_Completes ==
    \A t \in Threads : (~At(t, {"idle"})) ~> At(t, {"idle"})

\* C20: no goroutine holds globalMutex while it acquires or waits for a
\* symbol's mutex, and every call that starts acquires its mutex and returns.
C20_NoDeadlock == []C20_LockOrder /\ C20_Completes

\* A goroutine waiting for a symbol's mutex while its holder is inside
\* getOrderBook with globalMutex locked.
C20_Witness ==
    \E t \in Threads, u \in Threads :
        /\ At(t, {"lock"})
        /\ symbolMutexes[threads[t].symbol] = u
        /\ At(u, {"gob_create"})
        /\ globalMutex.writer = u

\* C21: every row with status Filled has remaining_quantity 0 and every row
\* with status Canceled has remaining_quantity 0.
C21_TerminalHasNoRemaining ==
    \A id \in DOMAIN dbOrders :
        dbOrders[id].Status \in {OrderStatusFilled, OrderStatusCanceled} =>
            dbOrders[id].RemainingQuantity = 0

\* A resting order filled in two trades, a limit order canceled by CancelOrder
\* after a partial fill.
C21_Witness ==
    /\ \E id \in DOMAIN dbOrders :
          /\ dbOrders[id].Status = OrderStatusFilled
          /\ Cardinality({i \in 1..Len(dbTrades) :
                            id \in {dbTrades[i].BuyOrderID, dbTrades[i].SellOrderID}}) = 2
    /\ \E id \in DOMAIN dbOrders :
          /\ dbOrders[id].Status = OrderStatusCanceled
          /\ dbOrders[id].Type = OrderTypeLimit
          /\ \E i \in 1..Len(dbTrades) :
                id \in {dbTrades[i].BuyOrderID, dbTrades[i].SellOrderID}

\* The last step was a run of Match: threads[1] holds the order and the book
\* passed in and the result returned, orderBooks the book after the run.
MatchRan == threads[1].op = "match" /\ threads[1].order.ID = lastInsertId

RECURSIVE SumQuantity(_)
SumQuantity(trades) ==
    IF trades = <<>> THEN 0 ELSE Head(trades).Quantity + SumQuantity(Tail(trades))

EntriesOf(updated, orderID) == {i \in 1..Len(updated) : updated[i].ID = orderID}

C23_UpdatedOnce ==
    MatchRan =>
        LET incoming == threads[1].order
            result == threads[1].result
            updated == result.UpdatedOrders
            before == threads[1].book
            after == BookOf(orderBooks, TestSymbol)
            makers == {MakerID(result.Trades[i], incoming.Side) : i \in 1..Len(result.Trades)}
        IN /\ \A r \in Resting(before) :
                LET id == r.order.ID
                    left == r.order.RemainingQuantity - TradedQuantity(result.Trades, id)
                IN IF id \in makers
                   THEN /\ Cardinality(EntriesOf(updated, id)) = 1
                        /\ \A i \in EntriesOf(updated, id) :
                              /\ updated[i] =
                                    [r.order EXCEPT
                                        !.RemainingQuantity = left,
                                        !.Status = IF left = 0 THEN OrderStatusFilled
                                                   ELSE OrderStatusPartiallyFilled]
                              /\ RestingByID(after, id) =
                                    IF left = 0 THEN NoOrder ELSE updated[i]
                   ELSE /\ EntriesOf(updated, id) = {}
                        /\ RestingByID(after, id) = r.order
           /\ \A i \in 1..Len(updated) :
                updated[i].ID \in makers \cup {incoming.ID}
           /\ makers \subseteq {r.order.ID : r \in Resting(before)}

\* A run that filled one resting order and left the next one partially filled,
\* a third one untouched.
C23_Witness ==
    /\ MatchRan
    /\ Len(threads[1].result.Trades) = 2
    /\ \E i \in 1..Len(threads[1].result.UpdatedOrders) :
          /\ threads[1].result.UpdatedOrders[i].Status = OrderStatusPartiallyFilled
          /\ threads[1].result.UpdatedOrders[i].ID # threads[1].order.ID
    /\ Cardinality(Resting(BookOf(orderBooks, TestSymbol))) = 2

\* The remaining quantity of an order in a book, 0 when it rests there no more.
RemainingIn(ob, orderID) ==
    IF RestingByID(ob, orderID) = NoOrder THEN 0
    ELSE RestingByID(ob, orderID).RemainingQuantity

\* C24: each trade's quantity is the smaller of what the incoming and the
\* resting order have left at the time of the trade and is > 0; both are reduced
\* by it, so the trades of one run sum to the incoming order's initial quantity
\* less what it has left before finalization, and to the reduction of the
\* resting orders.
C24_TradeQuantity ==
    MatchRan =>
        LET incoming == threads[1].order
            trades == threads[1].result.Trades
            before == threads[1].book
            after == BookOf(orderBooks, TestSymbol)
            working == IF incoming.Side = OrderSideBuy
                       THEN matchBuyOrder(incoming, before, NewMatchResult).order
                       ELSE matchSellOrder(incoming, before, NewMatchResult).order
        IN /\ \A i \in 1..Len(trades) :
                LET earlier == SubSeq(trades, 1, i - 1)
                    resting == RestingByID(before, MakerID(trades[i], incoming.Side))
                    incomingLeft == incoming.InitialQuantity - SumQuantity(earlier)
                    restingLeft == resting.RemainingQuantity
                                     - TradedQuantity(earlier, resting.ID)
                IN /\ resting # NoOrder
                   /\ trades[i].Quantity =
                         IF restingLeft < incomingLeft THEN restingLeft ELSE incomingLeft
                   /\ trades[i].Quantity > 0
           /\ SumQuantity(trades) = incoming.InitialQuantity - working.RemainingQuantity
           /\ \A r \in Resting(before) :
                RemainingIn(after, r.order.ID) =
                    r.order.RemainingQuantity - TradedQuantity(trades, r.order.ID)
           /\ SumQuantity(trades) =
                  SumRemaining(OppositeQueue(before, incoming.Side))
                    - SumRemaining(OppositeQueue(after, incoming.Side))

\* A run of two trades, the first bounded by the resting order and the second
\* by what the incoming order had left.
C24_Witness ==
    /\ MatchRan
    /\ Len(threads[1].result.Trades) = 2
    /\ threads[1].result.Trades[1].Quantity = 1
    /\ threads[1].result.Trades[2].Quantity = 1
    /\ RemainingIn(BookOf(orderBooks, TestSymbol),
                   MakerID(threads[1].result.Trades[2], threads[1].order.Side)) = 1

\* The price of a limit order reaches the price of a resting order.
Reaches(incoming, resting) ==
    /\ incoming.Price # NoPrice
    /\ resting.Price # NoPrice
    /\ IF incoming.Side = OrderSideBuy
       THEN incoming.Price >= resting.Price
       ELSE incoming.Price <= resting.Price

\* The incoming order can trade with the head of a queue of opposing orders.
Matches(incoming, queue) ==
    /\ queue # <<>>
    /\ incoming.Type = OrderTypeMarket \/ Reaches(incoming, Head(queue))

\* C25: the match condition.  A market order trades whenever an opposing order
\* rests; a limit buy trades with the best ask exactly when its price >= the
\* ask's and a limit sell with the best bid exactly when its price <= the
\* bid's, equal prices included, until it is filled or the condition fails; so
\* a limit buy never trades above its limit and a limit sell never below.
C25_MatchCondition ==
    MatchRan =>
        LET incoming == threads[1].order
            trades == threads[1].result.Trades
            before == OppositeQueue(threads[1].book, incoming.Side)
            after == OppositeQueue(BookOf(orderBooks, TestSymbol), incoming.Side)
        IN /\ Len(trades) > 0 <=> Matches(incoming, before)
           /\ SumQuantity(trades) < incoming.InitialQuantity => ~Matches(incoming, after)
           /\ incoming.Type = OrderTypeLimit =>
                \A i \in 1..Len(trades) :
                    IF incoming.Side = OrderSideBuy
                    THEN trades[i].Price <= incoming.Price
                    ELSE trades[i].Price >= incoming.Price

\* A limit order that traded at its own price and stopped in front of a
\* resting order its price does not reach.
C25_Witness ==
    /\ MatchRan
    /\ threads[1].order.Type = OrderTypeLimit
    /\ Len(threads[1].result.Trades) = 1
    /\ threads[1].result.Trades[1].Price = threads[1].order.Price
    /\ threads[1].result.IncomingOrderLeft # NoOrder
    /\ OppositeQueue(BookOf(orderBooks, TestSymbol), threads[1].order.Side) # <<>>

\* No row is Canceled with trades that sum to its initial quantity.
C26_NotCanceledAndFilled ==
    \A id \in DOMAIN dbOrders :
        dbOrders[id].Status = OrderStatusCanceled =>
            TradedQuantity(dbTrades, id) < dbOrders[id].InitialQuantity

\* The step of a CancelOrder that holds the mutex and finds its row Filled;
\* the trades a step adds.
C26_Step ==
    /\ \A t \in Threads :
          (/\ threads[t].op = "cancel"
           /\ At(t, {"begin"})
           /\ threads'[t] # threads[t]
           /\ dbOrders[threads[t].order.ID].Status = OrderStatusFilled) =>
              /\ lastOp'.op = "cancel"
              /\ lastOp'.err = "conflict"
              /\ lastOp'.id = threads[t].order.ID
              /\ threads'[t] = Idle
              /\ UNCHANGED <<dbOrders, dbTrades, orderBooks>>
    /\ \A id \in DOMAIN dbOrders :
          dbOrders[id].Status = OrderStatusCanceled =>
              /\ dbOrders'[id] = dbOrders[id]
              /\ \A i \in (Len(dbTrades) + 1)..Len(dbTrades') :
                    dbTrades'[i].BuyOrderID # id /\ dbTrades'[i].SellOrderID # id

\* C26: the race of a cancel with a fill.  A CancelOrder that passed its
\* checks ahead of the lock and finds, holding the mutex, that a PlaceOrder
\* filled the order fails with a conflict and leaves the Filled row; in every
\* interleaving no order is both Canceled and traded in full, and no trade is
\* stored for an order whose cancel is committed.
C26_CancelFillRace == []C26_NotCanceledAndFilled /\ [][C26_Step]_vars

\* A CancelOrder holding the mutex whose order had not traded when it was read
\* ahead of the lock; the PlaceOrder that has traded it in full since has
\* committed and returned.
C26_Witness ==
    \E t \in Threads :
        /\ threads[t].op = "cancel"
        /\ At(t, {"begin"})
        /\ symbolMutexes[threads[t].symbol] = t
        /\ threads[t].order.RemainingQuantity = threads[t].order.InitialQuantity
        /\ TradedQuantity(dbTrades, threads[t].order.ID)
              = threads[t].order.InitialQuantity
        /\ PlacedOk(lastOp)
        /\ Len(lastOp.trades) > 0

\* C27: after a successful PlaceOrder or CancelOrder the books and the store
\* agree: the orders resting in the books are the rows of type Limit with
\* status Open or PartiallyFilled, and each resting order has the remaining
\* quantity and the status of its row.
C27_BooksAgreeWithStore ==
    (lastOp.op \in {"place", "cancel"} /\ lastOp.err = "none") =>
        /\ {r.order.ID : r \in AllResting} =
              {id \in DOMAIN dbOrders :
                  /\ dbOrders[id].Type = OrderTypeLimit
                  /\ dbOrders[id].Status \in {OrderStatusOpen, OrderStatusPartiallyFilled}}
        /\ \A r \in AllResting :
              /\ r.order.ID \in DOMAIN dbOrders
              /\ r.order.RemainingQuantity = dbOrders[r.order.ID].RemainingQuantity
              /\ r.order.Status = dbOrders[r.order.ID].Status

ReportedLevels(levels) ==
    {levels.Bids[i] : i \in 1..Len(levels.Bids)} \cup {levels.Asks[i] : i \in 1..Len(levels.Asks)}

C28_NoEmptyLevel ==
    lastOp.op = "read" => \A level \in ReportedLevels(lastOp.levels) : level.Quantity > 0

\* The ids of the resting orders that matches still inside their loop have
\* traded against.
DecrementedIDs ==
    UNION {{MakerID(threads[u].result.Trades[i], threads[u].order.Side) :
                i \in 1..Len(threads[u].result.Trades)} :
           u \in {v \in Threads : threads[v].op = "place" /\ At(v, {"loop", "traded"})}}

CountedIDs(levels, price) ==
    IF price \in DOMAIN levels
    THEN {levels[price].Orders[i].ID : i \in 1..Len(levels[price].Orders)}
    ELSE {}

C28_Step ==
    \A t \in Threads :
        (threads[t].op = "read" /\ threads'[t].op = "read") =>
            LET r == threads[t].result
                q == threads'[t].result
                ob == orderBooks[threads[t].symbol]
            IN /\ Len(q.Bids) > Len(r.Bids) =>
                    CountedIDs(ob.Bids, q.Bids[Len(q.Bids)].Price) \cap DecrementedIDs = {}
               /\ Len(q.Asks) > Len(r.Asks) =>
                    CountedIDs(ob.Asks, q.Asks[Len(q.Asks)].Price) \cap DecrementedIDs = {}

\* C28: a GetOrderBookWithQuantities that runs beside PlaceOrder and
\* CancelOrder on its symbol reports, for every level, the level's total at a
\* state between two complete writes: no level it hands back has quantity 0,
\* and no quantity it reads counts a resting order that a match still inside
\* its loop has decremented.
C28_ReadBetweenWrites == [](C28_NoEmptyLevel) /\ [][C28_Step]_vars

\* The goroutine that holds a symbol's mutex, 0 when none does.
HeldBy(mutexes, symbol) == IF symbol \in DOMAIN mutexes THEN mutexes[symbol] ELSE 0

C29_Step ==
    \A symbol \in Symbols :
        BookOf(orderBooks', symbol) # BookOf(orderBooks, symbol) =>
            \E t \in Threads :
                /\ HeldBy(symbolMutexes, symbol) = t
                /\ HeldBy(symbolMutexes', symbol) = t
                /\ threads'[t] # threads[t]

\* C29: a step that changes a symbol's book (an order added or removed, a
\* resting order's remaining quantity or status written) is a step of the
\* goroutine that holds the symbol's mutex, in PlaceOrder, in CancelOrder and
\* in the LoadOpenOrders of a start.
C29_MutatedUnderSymbolLock == [][C29_Step]_vars

\* C30: a goroutine that holds a symbol's mutex inside PlaceOrder or
\* CancelOrder holds no other lock of the engine: it is neither a reader nor
\* the writer of globalMutex until it has released the symbol's mutex.
C30_OnlySymbolLockHeld ==
    \A t \in Threads :
        HeldBy(symbolMutexes, threads[t].symbol) = t =>
            /\ t \notin globalMutex.readers
            /\ globalMutex.writer # t

C31_Step ==
    /\ DOMAIN symbolMutexes \subseteq DOMAIN symbolMutexes'
    /\ DOMAIN orderBooks \subseteq DOMAIN orderBooks'
    /\ \A t \in Threads :
          LET symbol == threads[t].symbol
          IN /\ (At(t, {"gsm_create"}) /\ threads'[t].pc = "lock"
                    /\ symbol \in DOMAIN symbolMutexes)
                 => symbolMutexes'[symbol] = symbolMutexes[symbol]
             /\ (At(t, {"gob_create"}) /\ threads'[t].pc # "gob_create"
                    /\ symbol \in DOMAIN orderBooks)
                 => orderBooks'[symbol] = orderBooks[symbol]
    /\ \A symbol \in DOMAIN symbolMutexes :
          symbolMutexes'[symbol] # symbolMutexes[symbol] =>
              \E t \in Threads :
                  \/ /\ symbolMutexes[symbol] = 0
                     /\ symbolMutexes'[symbol] = t
                     /\ At(t, {"lock"})
                     /\ threads[t].symbol = symbol
                  \/ /\ symbolMutexes[symbol] = t
                     /\ symbolMutexes'[symbol] = 0
                     /\ threads[t].symbol = symbol
                     /\ threads'[t] = Idle

\* C31: goroutines that call getSymbolMutex and getOrderBook for one symbol at
\* the same time create one mutex and one book: a caller that finds the entry
\* at its second look-up leaves it as it is and uses it, an entry of either
\* map is never removed, and a mutex in the map changes only by the Lock and
\* Unlock of the calls that use it.
C31_OneInstancePerSymbol == [][C31_Step]_vars

\* A goroutine at its second look-up for a mutex that another goroutine has
\* created and locked meanwhile.
C31_Witness ==
    \E t \in Threads :
        /\ At(t, {"gsm_create"})
        /\ threads[t].symbol \in DOMAIN symbolMutexes
        /\ symbolMutexes[threads[t].symbol] \notin {0, t}

\* What the engine keeps of a symbol: its book, its rows and its trades.
SymbolState(books, orders, trades, symbol) ==
    [book |-> BookOf(books, symbol),
     rows |-> {orders[id] : id \in {i \in DOMAIN orders : orders[i].Symbol = symbol}},
     trades |-> SelectSeq(trades, LAMBDA trade : trade.Symbol = symbol)]

\* The symbol of the call a goroutine is in before or after the step.
CallSymbol(t) == IF At(t, {"idle"}) THEN threads'[t].symbol ELSE threads[t].symbol

C32_Step ==
    \A t \in Threads :
        threads'[t] # threads[t] =>
            \A other \in Symbols \ {CallSymbol(t)} :
                SymbolState(orderBooks', dbOrders', dbTrades', other)
                    = SymbolState(orderBooks, dbOrders, dbTrades, other)

C32_NotBlocked ==
    \A t \in Threads, u \in Threads :
        (/\ HeldBy(symbolMutexes, threads[t].symbol) = t
         /\ At(u, {"lock"})
         /\ threads[u].symbol # threads[t].symbol
         /\ \A v \in Threads : threads[v].symbol = threads[u].symbol
                                => HeldBy(symbolMutexes, threads[v].symbol) # v)
            => MutexFree(symbolMutexes, threads[u].symbol)

\* C32: a step of a PlaceOrder or CancelOrder on one symbol leaves the book,
\* the rows and the trades of every other symbol as they were, and a goroutine
\* that holds the mutex of one symbol does not keep a goroutine at Lock() of
\* another symbol's mutex from going through.
C32_SymbolsIndependent == [](C32_NotBlocked) /\ [][C32_Step]_vars

\* Two goroutines hold the mutexes of two symbols at once; the one has traded
\* on its symbol, the other has added its order to its symbol's book.
C32_Witness ==
    \E t \in Threads, u \in Threads :
        /\ threads[t].symbol # threads[u].symbol
        /\ HeldBy(symbolMutexes, threads[t].symbol) = t
        /\ HeldBy(symbolMutexes, threads[u].symbol) = u
        /\ At(t, {"commit"})
        /\ Len(threads[t].result.Trades) > 0
        /\ At(u, {"commit"})
        /\ SymbolState(orderBooks, dbOrders, dbTrades, threads[u].symbol).book
              # NewOrderBook(threads[u].symbol)

C33_InRange ==
    \A id \in DOMAIN dbOrders :
        /\ dbOrders[id].RemainingQuantity >= 0
        /\ dbOrders[id].RemainingQuantity <= dbOrders[id].InitialQuantity

C33_Step ==
    \A id \in DOMAIN dbOrders :
        id \in DOMAIN dbOrders' =>
            /\ dbOrders'[id].InitialQuantity = dbOrders[id].InitialQuantity
            /\ dbOrders'[id].RemainingQuantity <= dbOrders[id].RemainingQuantity

\* C33: in every committed state each row of orders has remaining_quantity
\* between 0 and its initial_quantity; from one committed state to the next
\* a row's initial_quantity stays and its remaining_quantity does not grow.
C33_StoredQuantities == [](C33_InRange) /\ [][C33_Step]_vars

\* A call that traded has written a resting order's row: part of it is left.
C33_Witness ==
    /\ lastOp.op = "place"
    /\ lastOp.err = "none"
    /\ \E i \in 1..Len(lastOp.trades) :
          \E id \in {lastOp.trades[i].BuyOrderID, lastOp.trades[i].SellOrderID} \ {lastOp.order.ID} :
              /\ id \in DOMAIN dbOrders
              /\ dbOrders[id].RemainingQuantity > 0
              /\ dbOrders[id].RemainingQuantity < dbOrders[id].InitialQuantity
              /\ dbOrders[id].Status = OrderStatusPartiallyFilled

\* A goroutine inside the loop of matchBuyOrder or matchSellOrder.
InLoop(t) == threads[t].op = "place" /\ At(t, {"loop", "traded"})

\* The passes made so far are at most the resting orders the call found on
\* the opposite side, plus one.
C34_Bound ==
    \A t \in Threads :
        (threads[t].op = "place" /\ At(t, {"loop", "traded", "commit"})) =>
            Len(threads[t].result.Trades)
                <= Len(OppositeQueue(BookOf(serial.books, threads[t].symbol),
                                     threads[t].order.Side)) + 1

C34_Step ==
    \A t \in Threads :
        (/\ threads[t].op = "place"
         /\ At(t, {"traded"})
         /\ threads'[t].pc = "loop") =>
            \/ threads'[t].working.RemainingQuantity = 0
            \/ Len(OppositeQueue(orderBooks'[threads[t].symbol], threads[t].order.Side))
                 = Len(OppositeQueue(orderBooks[threads[t].symbol], threads[t].order.Side)) - 1

\* C34: Match ends for every incoming order and every book: a pass of the
\* loop leaves the incoming order with nothing or takes one resting order out
\* of the book, the passes are at most the opposite side's resting orders
\* plus one, and a goroutine inside the loop gets out of it.
C34_MatchTerminates ==
    /\ [](C34_Bound)
    /\ [][C34_Step]_vars
    /\ \A t \in Threads : InLoop(t) ~> (threads[t].op = "place" /\ At(t, {"commit"}))

\* A Match that made two passes and took two resting orders out of the book.
C34_Witness ==
    \E t \in Threads :
        /\ threads[t].op = "place"
        /\ At(t, {"commit"})
        /\ Len(threads[t].result.Trades) = 2
        /\ Len(OppositeQueue(BookOf(serial.books, threads[t].symbol),
                             threads[t].order.Side)) = 2
        /\ OppositeQueue(orderBooks[threads[t].symbol], threads[t].order.Side) = <<>>

\* The level maps of a side, and the orders filed at a price of a side.
LevelsOf(ob, side) == IF side = OrderSideBuy THEN ob.Bids ELSE ob.Asks

OrdersAt(ob, side, price) ==
    IF price \in DOMAIN LevelsOf(ob, side) THEN LevelsOf(ob, side)[price].Orders ELSE <<>>

OtherSide(side) == IF side = OrderSideBuy THEN OrderSideSell ELSE OrderSideBuy

\* The last call was AddOrder, RemoveOrder: threads[1] holds its arguments, the
\* book before it and what it returned, orderBooks the book after it.
AddRan == threads[1].op = "add"

RemoveRan == threads[1].op = "remove"

\* C35: AddOrder leaves the book as it is when the order is a market order or
\* has no price; otherwise the order becomes the last of the level of its
\* price on its side (a new level when there was none), and every other level
\* and the other side stay as they were.
C35_AddOrder ==
    AddRan =>
        LET order == threads[1].order
            ob == threads[1].book
            after == BookOf(orderBooks, TestSymbol)
        IN IF order.Type = OrderTypeMarket \/ order.Price = NoPrice
           THEN after = ob
           ELSE /\ OrdersAt(after, order.Side, order.Price)
                     = Append(OrdersAt(ob, order.Side, order.Price), order)
                /\ DOMAIN LevelsOf(after, order.Side)
                     = DOMAIN LevelsOf(ob, order.Side) \cup {order.Price}
                /\ \A price \in DOMAIN LevelsOf(ob, order.Side) \ {order.Price} :
                      LevelsOf(after, order.Side)[price] = LevelsOf(ob, order.Side)[price]
                /\ LevelsOf(after, OtherSide(order.Side)) = LevelsOf(ob, OtherSide(order.Side))

\* C36: RemoveOrder(id, side, price) returns true exactly when the level at
\* that side and price holds the id; then the order is gone from the level,
\* the level is deleted from the map when it held nothing else, and nothing
\* else of the book changes.  Otherwise (no price, no such level, id not in
\* the level) it returns false and the book is as before.
C36_RemoveOrder ==
    RemoveRan =>
        LET orderID == threads[1].order.ID
            side == threads[1].order.Side
            price == threads[1].order.Price
            removed == threads[1].result.removed
            ob == threads[1].book
            after == BookOf(orderBooks, TestSymbol)
            there == \E i \in 1..Len(OrdersAt(ob, side, price)) :
                        OrdersAt(ob, side, price)[i].ID = orderID
        IN /\ removed = (price # NoPrice /\ there)
           /\ ~removed => after = ob
           /\ removed =>
                /\ \A i \in 1..Len(OrdersAt(after, side, price)) :
                      OrdersAt(after, side, price)[i].ID # orderID
                /\ Len(OrdersAt(after, side, price)) = Len(OrdersAt(ob, side, price)) - 1
                /\ (price \in DOMAIN LevelsOf(after, side))
                      = (Len(OrdersAt(ob, side, price)) > 1)
                /\ \A other \in DOMAIN LevelsOf(ob, side) \ {price} :
                      /\ other \in DOMAIN LevelsOf(after, side)
                      /\ LevelsOf(after, side)[other] = LevelsOf(ob, side)[other]
                /\ LevelsOf(after, OtherSide(side)) = LevelsOf(ob, OtherSide(side))

\* RemoveOrder took the only order of a level, and the level is gone, while
\* an order rests at another place of the book.
C36_Witness ==
    /\ threads[1].op = "remove"
    /\ threads[1].result.removed
    /\ threads[1].order.Price \notin
          DOMAIN LevelsOf(BookOf(orderBooks, TestSymbol), threads[1].order.Side)
    /\ BookOf(orderBooks, TestSymbol).Bids # EmptyMap
    /\ BookOf(orderBooks, TestSymbol).Asks # EmptyMap

\* The orders of a level without the one of this id, in their order.
Without(orders, orderID) == SelectSeq(orders, LAMBDA order : order.ID # orderID)

\* C37: PriceLevel.Remove takes out the order of the given id and keeps the
\* others in the order they were added, wherever in the level the order was;
\* for an id the level does not hold it returns false and the level stays.
C37_PriceLevelRemove ==
    RemoveRan =>
        LET orderID == threads[1].order.ID
            side == threads[1].order.Side
            price == threads[1].order.Price
            ob == threads[1].book
            after == BookOf(orderBooks, TestSymbol)
        IN price \in DOMAIN LevelsOf(ob, side) =>
              /\ OrdersAt(after, side, price) = Without(OrdersAt(ob, side, price), orderID)
              /\ threads[1].result.removed
                    = (OrdersAt(after, side, price) # OrdersAt(ob, side, price))

\* The first of three orders of a level has been removed: the two left are
\* in the order they were added.
C37_Witness ==
    /\ threads[1].op = "remove"
    /\ threads[1].result.removed
    /\ threads[1].order.ID = 1
    /\ Len(OrdersAt(BookOf(orderBooks, TestSymbol), threads[1].order.Side,
                    threads[1].order.Price)) = 2
    /\ OrdersAt(BookOf(orderBooks, TestSymbol), threads[1].order.Side,
                threads[1].order.Price)[1].ID = 2

StrictlyDecreasing(prices) == \A i \in 1..(Len(prices) - 1) : prices[i] > prices[i + 1]

StrictlyIncreasing(prices) == \A i \in 1..(Len(prices) - 1) : prices[i] < prices[i + 1]

SideInOrder(levels, prices) ==
    /\ {prices[i] : i \in 1..Len(prices)} = DOMAIN levels
    /\ \A price \in DOMAIN levels :
          /\ levels[price].Price = price
          /\ ~IsEmpty(levels[price])

\* C38: whatever AddOrder and RemoveOrder calls were made on a book, its bid
\* prices are strictly decreasing and its ask prices strictly increasing,
\* each list holds exactly the prices of the levels in its side's map, and no
\* level of either map is empty.
C38_SortedViews ==
    LET ob == BookOf(orderBooks, TestSymbol)
    IN /\ StrictlyDecreasing(ob.bidPrices)
       /\ StrictlyIncreasing(ob.askPrices)
       /\ SideInOrder(ob.Bids, ob.bidPrices)
       /\ SideInOrder(ob.Asks, ob.askPrices)

\* A RemoveOrder has deleted a level and two bid levels are left.
C38_Witness ==
    /\ threads[1].op = "remove"
    /\ threads[1].result.removed
    /\ threads[1].order.Price \notin
          DOMAIN LevelsOf(BookOf(orderBooks, TestSymbol), threads[1].order.Side)
    /\ Len(BookOf(orderBooks, TestSymbol).bidPrices) = 2

\* The order of a side that is first in price-time priority, NoOrder when the
\* side is empty.  Orders are added in the order of their ids.
FirstOf(ob, side) ==
    LET orders == {r.order : r \in {x \in Resting(ob) : x.side = side}}
        before(a, b) ==
            \/ (IF side = OrderSideBuy THEN a.Price > b.Price ELSE a.Price < b.Price)
            \/ (a.Price = b.Price /\ a.ID <= b.ID)
    IN IF orders = {} THEN NoOrder
       ELSE CHOOSE a \in orders : \A b \in orders : before(a, b)

\* C39: GetBestBid returns the oldest order of the highest bid level and
\* GetBestAsk the oldest order of the lowest ask level, on every book that
\* AddOrder and RemoveOrder calls can build; nil exactly when the side holds
\* no order.
C39_BestOrders ==
    threads[1].op = "best" =>
        /\ threads[1].result.bid = FirstOf(BookOf(orderBooks, TestSymbol), OrderSideBuy)
        /\ threads[1].result.ask = FirstOf(BookOf(orderBooks, TestSymbol), OrderSideSell)

\* Two orders at the highest bid and one below: the older of the two is best.
C39_Witness ==
    /\ threads[1].op = "best"
    /\ threads[1].result.bid # NoOrder
    /\ threads[1].result.ask = NoOrder
    /\ Len(BookOf(orderBooks, TestSymbol).bidPrices) = 2
    /\ Len(OrdersAt(BookOf(orderBooks, TestSymbol), OrderSideBuy,
                    threads[1].result.bid.Price)) = 2

====
